---- MODULE Spec2Model ----
(***************************************************************************)
(* Remote Orchestration Core of MattyJacksBot (v1/controller/ssh.js):      *)
(* the Remote Session Manager (connect / connectWithRetry / connectOnce /  *)
(* disconnect / getConnectionStatus), the Remote Command Executor          *)
(* (executeRemote) and the Provisioning State Machine (bootstrap and the   *)
(* functions it calls).                                                    *)
(*                                                                         *)
(* The JavaScript is single threaded; every await is a suspension point.   *)
(* The call chain executeRemote -> connect -> bootstrap -> executeRemote   *)
(* is recursive, so the model keeps an explicit stack of activations.      *)
(***************************************************************************)
EXTENDS Integers, Sequences, FiniteSets, TLC

\* -------------------------------------------------------------------------
\* Bounds of the model (not program constants)
\* -------------------------------------------------------------------------
MaxEvents == 2
MaxRetries == 2
MaxAddrs == 2
MaxPolls == 2
\* the time from one pass to the next, in ms
PassInterval == 100000
\* the calls of executeRemote one concurrent caller makes
MaxCalls == 2

\* -------------------------------------------------------------------------
\* Strings.  A message is a sequence of text fragments; toLowerCase() acts
\* fragment by fragment and includes() looks for a fragment.
\* -------------------------------------------------------------------------
Lower(s) ==
  CASE s = "Not connected" -> "not connected"
    [] s = "Timed out" -> "timed out"
    [] s = "ECONNREFUSED" -> "econnrefused"
    [] s = "ECONNRESET" -> "econnreset"
    [] s = "ETIMEDOUT" -> "etimedout"
    [] s = "EHOSTUNREACH" -> "ehostunreach"
    [] s = "ENETUNREACH" -> "enetunreach"
    [] s = "ENOTFOUND" -> "enotfound"
    [] OTHER -> s

toLowerCase(msg) == [i \in 1..Len(msg) |-> Lower(msg[i])]

includes(msg, s) == \E i \in 1..Len(msg) : msg[i] = s

\* An Error object: code ("" when the property is absent) and message; the
\* model names the message text mentions are kept beside its fragments.
\* class (not a field of the program) is what the failure really was.
NoErr == [code |-> "", message |-> <<>>, class |-> "none", names |-> {}]

MkErr(code, message, class) ==
  [code |-> code, message |-> message, class |-> class, names |-> {}]

E_REFUSED == MkErr("ECONNREFUSED", <<"connect", "ECONNREFUSED">>, "refused")
E_RESET == MkErr("ECONNRESET", <<"read", "ECONNRESET">>, "reset")
E_TIMEDOUT == MkErr("ETIMEDOUT", <<"connect", "ETIMEDOUT">>, "timeout")
E_HANDSHAKE == MkErr("", <<"Timed out", "while waiting for handshake">>, "timeout")
E_HOSTUNREACH == MkErr("EHOSTUNREACH", <<"connect", "EHOSTUNREACH">>, "unreachable")
E_NETUNREACH == MkErr("ENETUNREACH", <<"connect", "ENETUNREACH">>, "unreachable")
E_AUTH == MkErr("", <<"All configured authentication methods failed">>, "auth")
E_NOTFOUND == MkErr("ENOTFOUND", <<"getaddrinfo", "ENOTFOUND">>, "dns")

\* What one connectOnce attempt can fail with.
ConnectErrors ==
  {E_REFUSED, E_RESET, E_TIMEDOUT, E_HANDSHAKE, E_HOSTUNREACH, E_NETUNREACH,
   E_AUTH, E_NOTFOUND}

RetryableClasses == {"refused", "reset", "timeout", "unreachable"}

isRetryableConnectError_All(err) == err # NoErr

isRetryableConnectError(err) ==
  LET codes == {"ECONNREFUSED", "ECONNRESET", "ETIMEDOUT", "EHOSTUNREACH", "ENETUNREACH"}
      msg == toLowerCase(err.message)
  IN IF err = NoErr THEN FALSE
     ELSE IF err.code \in codes THEN TRUE
     ELSE includes(msg, "econnrefused") \/ includes(msg, "econnreset")
            \/ includes(msg, "timed out")

\* Math.min(2000 * attempt, 10000)
BackoffStep == 2000
BackoffCap == 10000
Min(a, b) == IF a < b THEN a ELSE b
backoffMs(attempt) == Min(BackoffStep * attempt, BackoffCap)

\* -------------------------------------------------------------------------
\* Model names.  A name is the sequence of its ':'-separated parts, so
\* <<"qwen3-coder", "14b">> is "qwen3-coder:14b" and split(':') is the
\* sequence itself.  NoModel is the empty string.
\* -------------------------------------------------------------------------
NoModel == <<>>

\* parseInt() of something that is not a number
NaN == -1

LowerPart(p) ==
  CASE p = "Qwen3" -> "qwen3"
    [] OTHER -> p

lowerName(m) == [i \in 1..Len(m) |-> LowerPart(m[i])]

\* family.toLowerCase().includes('coder')
isCoderFamily(family) == LowerPart(family) \in {"qwen3-coder", "qwen2.5-coder"}

Lt_OrEqual(a, b) == a # NaN /\ b # NaN /\ a <= b

\* a < b on JavaScript numbers: false when either side is NaN
Lt(a, b) == a # NaN /\ b # NaN /\ a < b

\* process.env read by selectModelForVRAM: family, override (NoModel when
\* unset), and the three thresholds after parseInt.
selectModelForVRAM_NoOverride(e, vramGB) ==
  IF isCoderFamily(e.family)
  THEN IF Lt(vramGB, e.low) THEN <<e.family, "7b">>
       ELSE IF Lt(vramGB, e.high) THEN <<e.family, "14b">>
       ELSE <<e.family, "30b">>
  ELSE IF Lt(vramGB, e.low) THEN <<e.family, "4b">>
       ELSE IF Lt(vramGB, e.mid) THEN <<e.family, "8b">>
       ELSE IF Lt(vramGB, e.high) THEN <<e.family, "14b">>
       ELSE <<e.family, "30b">>

selectModelForVRAM(e, vramGB) ==
  IF e.override # NoModel THEN e.override
  ELSE IF isCoderFamily(e.family)
  THEN IF Lt(vramGB, e.low) THEN <<e.family, "7b">>
       ELSE IF Lt(vramGB, e.high) THEN <<e.family, "14b">>
       ELSE <<e.family, "30b">>
  ELSE IF Lt(vramGB, e.low) THEN <<e.family, "4b">>
       ELSE IF Lt(vramGB, e.mid) THEN <<e.family, "8b">>
       ELSE IF Lt(vramGB, e.high) THEN <<e.family, "14b">>
       ELSE <<e.family, "30b">>

\* const add = (m) => { if (!m) return; if (!candidates.includes(m)) push }
addCandidate(cands, m) ==
  IF m = NoModel THEN cands
  ELSE IF \E i \in 1..Len(cands) : cands[i] = m THEN cands
  ELSE Append(cands, m)

buildModelCandidates(primaryModel) ==
  LET name == primaryModel[1]
      hasTag == Len(primaryModel) >= 2
      c1 == addCandidate(<<>>, primaryModel)
      c2 == addCandidate(c1, <<name>>)
      c3 == addCandidate(c2, <<name, "latest">>)
      fallbackName == IF name = "qwen3-coder" THEN "qwen2.5-coder" ELSE ""
  IN IF hasTag /\ fallbackName # ""
     THEN addCandidate(addCandidate(addCandidate(c3,
            <<fallbackName, primaryModel[2]>>), <<fallbackName>>),
            <<fallbackName, "latest">>)
     ELSE c3

normalizeModelNameForOllamaCheck(model) ==
  IF model = NoModel THEN NoModel
  ELSE IF Len(model) >= 2 THEN model
  ELSE <<model[1], "latest">>

\* String.prototype.includes on the text of `ollama list`: a row NAME:TAG
\* contains the needle n:t when n ends NAME and t starts TAG.
tagStarts(t, tag) == t = tag \/ <<t, tag>> \in {<<"14b", "14b-q4">>}

rowContains(row, needle) ==
  /\ Len(row) >= 2 /\ Len(needle) >= 2
  /\ needle[1] = row[1]
  /\ tagStarts(needle[2], row[2])

hayIncludes(catalog, needle) ==
  \E row \in catalog : rowContains(lowerName(row), needle)

\* the value isModelPresent computes from the output of `ollama list`
modelListed(catalog, model) ==
  LET normalized == normalizeModelNameForOllamaCheck(model)
      nameOnly == normalized[1]
  IN \/ hayIncludes(catalog, lowerName(normalized))
     \/ hayIncludes(catalog, <<LowerPart(nameOnly), "latest">>)

\* -------------------------------------------------------------------------
\* State
\* -------------------------------------------------------------------------
VARIABLES
  sshConnection,  \* the module's handle: "null", or the state of the Client
                  \* it references: "ready" (transport open) or "ended"
  orphans,        \* Clients whose transport is open and that no handle references
  stack,          \* activations of connect() / of a caller's executeRemote()
  ret,            \* value or exception handed from a finished call to its caller
  remote,         \* the remote host
  env,            \* process.env and the options of the invocation
  budget,         \* events left: operations started by callers, channel faults
  done,           \* outcome of the last finished operation of the caller
  sync,           \* the sync engine: both file trees and the pass in progress
  callers         \* concurrent callers of executeRemote, each at one of its awaits

vars ==
  <<sshConnection, orphans, stack, ret, remote, env, budget, done, sync, callers>>

\* -------------------------------------------------------------------------
\* Errors raised by the executor and the provisioning functions
\* -------------------------------------------------------------------------
\* ssh2 Client.exec on a Client whose socket is gone
E_NOTCONN == MkErr("", <<"Not connected">>, "notconnected")
\* ssh2 hands the exec callback an error (the channel could not be opened)
E_CHANNEL == MkErr("", <<"(SSH) Channel open failure">>, "channel")
\* sshConnection.exec with sshConnection === null
E_NULLDEREF == MkErr("", <<"Cannot read properties of null">>, "typeerror")
E_NOHOST == MkErr("", <<"VAST_HOST not configured in .env">>, "config")
E_NOCRED == MkErr("", <<"Either VAST_SSH_KEY_PATH or VAST_PASSWORD must be set in .env">>, "config")
E_GENERIC == MkErr("", <<"SSH connection failed">>, "generic")

\* new Error(`Command failed with code ${code}: ${stderr}`)
commandFailed(code, stderr) ==
  MkErr("", <<"Command failed with code", ToString(code), ":">> \o stderr, "command")

\* new Error(`SSH connection failed: ${err.message}`)
connectFailed(err) ==
  [MkErr("", <<"SSH connection failed:">> \o err.message, "connect")
     EXCEPT !.names = err.names]

\* (err?.message || '').toLowerCase().includes('not connected')
notConnectedSignature_Never(err) == FALSE

notConnectedSignature(err) ==
  includes(toLowerCase(err.message), "not connected")

\* -------------------------------------------------------------------------
\* The remote host: what each shell command prints and changes.
\* A result is [out, code, stderr, r]: stdout, exit status, stderr and the
\* host afterwards.  Text is a sequence of fragments.
\* -------------------------------------------------------------------------
Cmd(id, arg) == [id |-> id, arg |-> arg]

Res(out, code, stderr, r) == [out |-> out, code |-> code, stderr |-> stderr, r |-> r]

GatewayPortLine == "LISTEN 127.0.0.1:18789"

LogSignatures == {"Invalid config at", "Config invalid",
                  "No API key found for provider \"ollama\"", "Unknown model:"}

\* What the watchdog loop and the gateway may have done while the controller
\* was not looking (it slept, or was between two operations): under a live
\* watchdog the gateway is (re)launched and may bind the port or exit again;
\* without one a running gateway may exit.
gatewayProgress(r) ==
  IF (r.watchdog \/ r.strayWd) /\ r.openclaw /\ r.token
  THEN {[r EXCEPT !.gwProc = pp[1], !.gwPort = pp[2], !.gwOrphan = FALSE] :
          pp \in {<<FALSE, FALSE>>, <<TRUE, FALSE>>, <<TRUE, TRUE>>}}
       \cup (IF r.gwOrphan THEN {r} ELSE {})
  ELSE IF r.gwProc
  THEN {r, [r EXCEPT !.gwProc = FALSE, !.gwPort = FALSE, !.gwOrphan = FALSE]}
  ELSE {r}

\* a background `ollama pull` that finished in the meantime
pullProgress(r) ==
  {r} \cup {[r EXCEPT !.catalog = @ \cup {normalizeModelNameForOllamaCheck(m)},
                      !.pulls = @ \ {m}] : m \in r.pulls}

hostProgress(r) == UNION {pullProgress(q) : q \in gatewayProgress(r)}

\* ---- /root/.openclaw/openclaw.json ----
\* The document is its form ("absent": no file or an empty one; "json": what
\* json.loads accepts; "text": fields written in a way json.loads rejects,
\* such as with comments or a trailing comma) and the value at each field:
\* "absent", "system" (what this program writes there), "user" (another
\* value), or "malformed" (for fallbacks: not a list; for the provider's
\* models: a list with an entry lacking id or name).
CfgPaths ==
  {"agent.model",
   "agents.defaults.workspace", "agents.defaults.sandbox.mode",
   "agents.defaults.model.primary", "agents.defaults.model.fallbacks",
   "agents.defaults.timeoutSeconds",
   "gateway.mode", "gateway.bind", "gateway.port",
   "models.providers.ollama.baseUrl", "models.providers.ollama.apiKey",
   "models.providers.ollama.api", "models.providers.ollama.models"}

EmptyFields == [p \in CfgPaths |-> "absent"]

NoDoc == [form |-> "absent", fields |-> EmptyFields]

\* cat > ~/.openclaw/openclaw.json of the install script
InstallDoc ==
  [form |-> "json",
   fields |-> [p \in CfgPaths |->
                 IF p \in {"agent.model", "agents.defaults.workspace",
                            "agents.defaults.sandbox.mode", "gateway.mode"}
                 THEN "system" ELSE "absent"]]

\* /tmp/openclaw_fix_config.py
fixConfig(doc) ==
  LET data == IF doc.form = "json" THEN doc.fields ELSE EmptyFields
      new == [p \in CfgPaths |->
                CASE p \in {"agents.defaults.workspace", "agents.defaults.sandbox.mode",
                             "agents.defaults.model.primary", "gateway.mode",
                             "gateway.bind", "models.providers.ollama.baseUrl"} ->
                       "system"
                  [] p = "agents.defaults.model.fallbacks" ->
                       IF data[p] = "user" THEN "user" ELSE "system"
                  [] p \in {"models.providers.ollama.apiKey",
                             "models.providers.ollama.api"} ->
                       IF data[p] = "absent" THEN "system" ELSE data[p]
                  [] p = "models.providers.ollama.models" ->
                       IF data[p] \in {"absent", "malformed"} THEN "system" ELSE data[p]
                  [] OTHER -> data[p]]
  IN IF new # data THEN [form |-> "json", fields |-> new] ELSE doc

installScript(r) ==
  {Res(<<"=== Bootstrap complete ===">>, 0, <<>>,
       [r EXCEPT !.openclaw = TRUE, !.ollama = TRUE, !.ollamaUp = TRUE,
                 !.cfg = IF @.form = "absent" THEN InstallDoc ELSE @]),
   Res(<<"Installing OpenClaw...">>, 1, <<"npm ERR!">>,
       [r EXCEPT !.ollama = TRUE, !.ollamaUp = TRUE]),
   Res(<<"Updating packages...">>, 100, <<"E: Unable to fetch some archives">>, r)}

userCommand(r) ==
  {Res(<<"out">>, 0, <<>>, r),
   Res(<<"partial">>, 1, <<"boom">>, r),
   Res(<<>>, 2, <<"Not connected">>, r)}

remoteExec(cmd, r) ==
  CASE cmd.id = "which" ->
         {Res((IF r.openclaw THEN <<"/usr/bin/openclaw">> ELSE <<>>)
                \o (IF r.openclaw /\ r.ollama THEN <<"/usr/local/bin/ollama">> ELSE <<>>),
              IF r.openclaw /\ r.ollama THEN 0 ELSE 1, <<>>, r)}
    [] cmd.id = "script" -> installScript(r)
    [] cmd.id = "nvidia-smi" ->
         {Res(IF r.gpuMB = NaN THEN <<>> ELSE <<r.gpuMB>>, 0, <<>>, r)}
    [] cmd.id = "cat current_model" -> {Res(r.marker, 0, <<>>, r)}
    [] cmd.id = "ollama pull" ->
         {Res(<<"started">>, 0, <<>>,
              IF r.ollama /\ normalizeModelNameForOllamaCheck(cmd.arg) \in r.registry
              THEN [r EXCEPT !.pulls = @ \cup {cmd.arg}] ELSE r)}
    [] cmd.id = "ollama list" ->
         {Res(<<IF r.ollama THEN r.catalog ELSE {}>>, 0, <<>>, r)}
    [] cmd.id = "echo current_model" ->
         {Res(<<>>, 0, <<>>, [r EXCEPT !.marker = cmd.arg])}
    [] cmd.id = "pgrep gateway" ->
         {Res(<<IF r.gwProc THEN "0" ELSE "1">>, 0, <<>>, r)}
    [] cmd.id \in {"ss", "netstat"} ->
         {Res(IF r.gwPort THEN <<GatewayPortLine>> ELSE <<>>, 0, <<>>, r)}
    [] cmd.id = "tail gateway.log" ->
         {Res(IF r.gwLog = "" THEN <<>> ELSE <<r.gwLog>>, 0, <<>>, r)}
    [] cmd.id = "command -v openclaw" ->
         {Res(IF r.openclaw THEN <<"/usr/bin/openclaw">> ELSE <<>>, 0, <<>>, r)}
    [] cmd.id = "gateway_token" ->
         {Res(<<"token">>, 0, <<>>, [r EXCEPT !.token = TRUE])}
    [] cmd.id = "pgrep ollama" ->
         {Res(<<IF r.ollamaUp THEN "yes" ELSE "no">>, 0, <<>>, r)}
    [] cmd.id = "ollama serve" ->
         {Res(<<>>, 0, <<>>, [r EXCEPT !.ollamaUp = r.ollama])}
    [] cmd.id \in {"gateway stop", "pkill openclaw-gateway", "pkill openclaw gateway"} ->
         {Res(<<>>, 0, <<>>,
              [r EXCEPT !.gwProc = FALSE, !.gwPort = FALSE, !.gwOrphan = FALSE])}
    [] cmd.id = "kill port owner" ->
         \* kill -9 of the pids `ss -ltnp | grep :port` shows
         {Res(<<>>, 0, <<>>,
              IF r.gwPort
              THEN [r EXCEPT !.gwProc = FALSE, !.gwPort = FALSE, !.gwOrphan = FALSE]
              ELSE r)}
    [] cmd.id = "kill watchdog" ->
         \* kill -9 of the pid in gateway_watchdog.pid; rm -f of the file
         {Res(<<>>, 0, <<>>, [r EXCEPT !.watchdog = FALSE, !.gwOrphan = r.gwProc])}
    [] cmd.id = "rm log pid" ->
         {Res(<<>>, 0, <<>>, [r EXCEPT !.gwLog = ""])}
    [] cmd.id = "launch watchdog" ->
         \* nohup bash watchdog & ... sleep 1; cat watchdog.pid
         {Res(<<"watchdog pid">>, 0, <<>>, q) :
            q \in gatewayProgress([r EXCEPT !.watchdog = TRUE,
                                            !.strayWd = @ \/ r.watchdog])}
    [] cmd.id = "cat gateway.pid" ->
         {Res(IF r.gwProc THEN <<"pid">> ELSE <<>>, 0, <<>>, r)}
    [] cmd.id = "ps -p" ->
         {Res(IF r.gwProc THEN <<"pid openclaw">> ELSE <<>>, 0, <<>>, r)}
    [] cmd.id = "pgrep -f openclaw gateway" ->
         {Res(IF r.gwProc THEN <<"pid">> ELSE <<>>, 0, <<>>, r)}
    [] cmd.id = "fix config" ->
         {Res(<<>>, 0, <<>>, [r EXCEPT !.cfgModel = cmd.arg, !.cfg = fixConfig(@)])}
    [] cmd.id = "models set" ->
         {Res(<<>>, 0, <<>>, [r EXCEPT !.cfgModel = cmd.arg])}
    [] cmd.id = "models status" ->
         {Res(IF r.openclaw THEN <<r.cfgModel, "Default">> ELSE <<>>, 0, <<>>, r)}
    [] cmd.id = "user" -> userCommand(r)
    [] OTHER -> {Res(<<>>, 0, <<>>, r)}

\* -------------------------------------------------------------------------
\* Activations
\* -------------------------------------------------------------------------
NoCmd == Cmd("", NoModel)

\* what one run of a command ended with (ran: the command was started)
NoRun == [code |-> 0, out |-> <<>>, stderr |-> <<>>, ran |-> FALSE]

\* the executeRemote call an activation is inside of, if any: the command, the
\* quiet option and where the call is; and its history: how often runOnce
\* ran, how often it reconnected, and the failure that made it reconnect
NoCall == [cmd |-> NoCmd, quiet |-> FALSE, phase |-> "none", runs |-> 0,
           reconnects |-> 0, first |-> NoErr, firstRun |-> NoRun]

NewCall(cmd, quiet) == [NoCall EXCEPT !.cmd = cmd, !.quiet = quiet, !.phase = "start"]

\* what pullModelForVRAM did in a connect(): the primary model, the
\* candidates it attempted and those isModelPresent reported present; and
\* what detectVRAM returned and how its query ended ("threw", "empty" when
\* it printed nothing parseInt reads a number from, "number")
NoPull == [primary |-> NoModel, attempted |-> <<>>, present |-> <<>>,
           vram |-> 0, smi |-> "none"]

\* what ensureGatewayRunning decided in a connect() ("healthy": it returned
\* without startGateway; "restart": it called startGateway), and the gateway
\* as it was then: its process, its port and the tail of its log
\* the latest run of ensureOpenclawConfig in a connect(): the document
\* before it and after its fix_config script (ran: the script was run)
NoReconcile == [ran |-> FALSE, before |-> NoDoc, after |-> NoDoc]

NoEnsure == [verdict |-> "none", proc |-> FALSE, port |-> FALSE, log |-> ""]

Ensured(verdict, r) ==
  [verdict |-> verdict, proc |-> r.gwProc, port |-> r.gwPort, log |-> r.gwLog]

\* for a connect() that returned, seen is what its last port check saw and
\* via the branch of bootstrap it took; for one that threw, via is the
\* provisioning state it was in
NoRet == [kind |-> "none", from |-> "", val |-> <<>>, err |-> NoErr, call |-> NoCall,
          run |-> NoRun, seen |-> "none", via |-> "none", pull |-> NoPull,
          ensure |-> NoEnsure, reconcile |-> NoReconcile]

Returned(from, val, call, run) ==
  [kind |-> "return", from |-> from, val |-> val, err |-> NoErr, call |-> call,
   run |-> run, seen |-> "none", via |-> "none", pull |-> NoPull,
   ensure |-> NoEnsure, reconcile |-> NoReconcile]

Thrown(from, err, call, run) ==
  [kind |-> "throw", from |-> from, val |-> <<>>, err |-> err, call |-> call,
   run |-> run, seen |-> "none", via |-> "none", pull |-> NoPull,
   ensure |-> NoEnsure, reconcile |-> NoReconcile]

Frame(op, force) ==
  [op |-> op, force |-> force, pc |-> "entry", call |-> NoCall,
   \* (whether the operation before this one was a connect() that returned)
   after |-> FALSE,
   \* connectWithRetry
   addrs |-> <<>>, attempt |-> 0, idx |-> 0, lastErr |-> NoErr,
   \* (history of this connectWithRetry: addresses tried, sleeps taken, the
   \* error of the latest attempt, and where a non-retryable failure happened)
   tried |-> <<>>, slept |-> <<>>, lastSeen |-> NoErr, fatal |-> 0, fatalSlept |-> 0,
   \* bootstrap and the provisioning functions
   fresh |-> FALSE, vram |-> 0, smi |-> "none", primary |-> NoModel, cands |-> <<>>, cidx |-> 0,
   lastError |-> NoErr, attempted |-> <<>>, present |-> <<>>, polls |-> 0, ra |-> "",
   model |-> NoModel, ss |-> <<>>, pid |-> <<>>, lastCheck |-> <<>>,
   portSeen |-> "none", ensure |-> NoEnsure, reconcile |-> NoReconcile,
   \* (how the startup poll of startGateway was left: "timeout" by its loop
   \* test, "break" by one of its two break statements)
   gaveUp |-> ""]

Top == stack[Len(stack)]

Idle == stack = <<>>

SetTop(f) == [stack EXCEPT ![Len(stack)] = f]

Pop == SubSeq(stack, 1, Len(stack) - 1)

\* hand `result` to whoever called the top activation
Deliver(result) ==
  /\ stack' = Pop
  /\ IF Len(stack) = 1
     THEN /\ done' = [op |-> Top.op] @@ result
          /\ ret' = NoRet
     ELSE /\ ret' = result
          /\ UNCHANGED done

\* -------------------------------------------------------------------------
\* Operations of the callers (CLI, control panel, bot, sync engine)
\* -------------------------------------------------------------------------
OpConnect ==
  /\ Idle /\ budget > 0
  /\ \E force \in BOOLEAN :
       stack' = <<[Frame("connect", force) EXCEPT
                     !.after = (done.op = "connect" /\ done.kind = "return")]>>
  /\ budget' = budget - 1
  /\ done' = [op |-> "connect"] @@ NoRet
  /\ UNCHANGED <<sshConnection, orphans, ret, remote, env>>
  /\ UNCHANGED <<sync, callers>>

OpExecute ==
  /\ Idle /\ budget > 0
  /\ \E quiet \in BOOLEAN :
       stack' = <<[Frame("executeRemote", FALSE) EXCEPT
                     !.call = NewCall(Cmd("user", NoModel), quiet), !.pc = "call"]>>
  /\ budget' = budget - 1
  /\ done' = [op |-> "executeRemote"] @@ NoRet
  /\ UNCHANGED <<sshConnection, orphans, ret, remote, env>>
  /\ UNCHANGED <<sync, callers>>

\* export function disconnect()
disconnect(h) == "null"

OpDisconnect ==
  /\ Idle /\ budget > 0
  /\ sshConnection' = disconnect(sshConnection)
  /\ budget' = budget - 1
  /\ done' = [op |-> "disconnect"] @@ Returned("disconnect", <<>>, NoCall, NoRun)
  /\ UNCHANGED <<orphans, stack, ret, remote, env>>
  /\ UNCHANGED <<sync, callers>>

\* export function getConnectionStatus()
getConnectionStatus(e, h) ==
  IF ~e.host THEN <<"connected:false", "host:null">>
  ELSE <<IF h # "null" THEN "connected:true" ELSE "connected:false", "host:VAST_HOST">>

OpStatus ==
  /\ Idle /\ budget > 0
  /\ budget' = budget - 1
  /\ done' = [op |-> "getConnectionStatus"]
               @@ Returned("getConnectionStatus",
                           getConnectionStatus(env, sshConnection), NoCall, NoRun)
  /\ UNCHANGED <<sshConnection, orphans, stack, ret, remote, env>>
  /\ UNCHANGED <<sync, callers>>

\* -------------------------------------------------------------------------
\* connect / connectWithRetry / connectOnce
\* -------------------------------------------------------------------------
\* the literal hostname, used when the lookup yields nothing
HostLiteral == 0

\* dns.promises.lookup(host, {all: true}): it throws, or yields records whose
\* address may be empty.  Address i stands for the i-th distinct IP.
DnsAnswers ==
  {<<"throw">>} \cup
  UNION {[1..n -> {"", "ip"}] : n \in 0..MaxAddrs}

RECURSIVE filterAddresses(_, _)
filterAddresses(answer, i) ==
  IF i > Len(answer) THEN <<>>
  ELSE (IF answer[i] # "" THEN <<i>> ELSE <<>>) \o filterAddresses(answer, i + 1)

resolveHostAddresses(answer) ==
  IF answer = <<"throw">> THEN <<HostLiteral>>
  ELSE LET addresses == filterAddresses(answer, 1)
       IN IF Len(addresses) > 0 THEN addresses ELSE <<HostLiteral>>

\* parseInt(process.env.VAST_SSH_CONNECT_RETRIES || '5'); the variable is
\* <<>> when unset and <<n>> when set to n
DefaultRetries == 5

maxAttempts_OneMore(e) ==
  IF e.retries = <<>> THEN DefaultRetries + 1 ELSE e.retries[1] + 1

maxAttempts(e) == IF e.retries = <<>> THEN DefaultRetries ELSE e.retries[1]

\* what a connectOnce attempt may end with in this model
AttemptErrors == {E_REFUSED, E_HANDSHAKE, E_AUTH, E_NOTFOUND}

\* connect(): the configuration checks, then connectWithRetry up to the
\* address lookup.
ConnectEntry ==
  /\ ~Idle /\ Top.op = "connect" /\ Top.pc = "entry"
  /\ IF ~env.host
     THEN Deliver([Thrown("connect", E_NOHOST, NoCall, NoRun) EXCEPT !.via = "Config"])
     ELSE IF ~env.cred
     THEN Deliver([Thrown("connect", E_NOCRED, NoCall, NoRun) EXCEPT !.via = "Config"])
     ELSE /\ \E answer \in DnsAnswers :
               stack' = SetTop([Top EXCEPT
                   !.addrs = resolveHostAddresses(answer),
                   !.attempt = 1, !.idx = 1,
                   !.pc = IF 1 <= maxAttempts(env) THEN "attempt" ELSE "cwr_fail"])
          /\ UNCHANGED <<ret, done>>
  /\ UNCHANGED <<sshConnection, orphans, remote, env, budget>>
  /\ UNCHANGED <<sync, callers>>

\* connectWithRetry returned { conn, connectedHost }: bootstrap(conn, options)
\* starts with its first executeRemote
Established(f) ==
  [Frame("connect", f.force) EXCEPT
     !.pc = "b_which", !.call = NewCall(Cmd("which", NoModel), TRUE),
     !.after = f.after]

\* one connectOnce inside the two loops of connectWithRetry
ConnectAttempt ==
  /\ ~Idle /\ Top.op = "connect" /\ Top.pc = "attempt"
  /\ LET f == Top
         g == [f EXCEPT !.tried = Append(@, f.addrs[f.idx])]
     IN \/ \* conn.on('ready'): sshConnection = conn
           /\ sshConnection' = "ready"
           /\ orphans' = IF sshConnection = "ready" THEN orphans + 1 ELSE orphans
           /\ stack' = SetTop(Established(f))
        \/ \* conn.on('error'): reject(err)
           /\ \E err \in AttemptErrors :
                LET h == [g EXCEPT !.lastErr = err, !.lastSeen = err,
                            !.fatal = IF @ = 0 /\ err.class \notin RetryableClasses
                                      THEN Len(g.tried) ELSE @,
                            !.fatalSlept = IF f.fatal = 0 /\ err.class \notin RetryableClasses
                                           THEN Len(g.slept) ELSE @]
                IN stack' = SetTop(
                     IF ~isRetryableConnectError(err) THEN [h EXCEPT !.pc = "cwr_fail"]
                     ELSE IF f.idx < Len(f.addrs) THEN [h EXCEPT !.idx = @ + 1]
                     ELSE [h EXCEPT !.pc = "backoff"])
           /\ UNCHANGED <<sshConnection, orphans>>
  /\ UNCHANGED <<ret, remote, env, budget, done>>
  /\ UNCHANGED <<sync, callers>>

\* await sleep(backoffMs); attempt += 1
ConnectBackoff ==
  /\ ~Idle /\ Top.op = "connect" /\ Top.pc = "backoff"
  /\ LET f == Top
     IN stack' = SetTop([f EXCEPT
          !.slept = Append(@, backoffMs(f.attempt)),
          !.attempt = @ + 1, !.idx = 1,
          !.pc = IF f.attempt + 1 <= maxAttempts(env) THEN "attempt" ELSE "cwr_fail"])
  /\ UNCHANGED <<sshConnection, orphans, ret, remote, env, budget, done>>
  /\ UNCHANGED <<sync, callers>>

\* connectWithRetry threw (err, or lastErr || new Error(...)); connect's catch
\* rethrows it wrapped.
ConnectFail ==
  /\ ~Idle /\ Top.op = "connect" /\ Top.pc = "cwr_fail"
  /\ Deliver([Thrown("connect",
                     connectFailed(IF Top.lastErr = NoErr THEN E_GENERIC ELSE Top.lastErr),
                     NoCall, NoRun) EXCEPT !.via = "Transport"])
  /\ UNCHANGED <<sshConnection, orphans, remote, env, budget>>
  /\ UNCHANGED <<sync, callers>>

\* -------------------------------------------------------------------------
\* executeRemote
\* -------------------------------------------------------------------------
\* stream.on('close', code => ...): reject or resolve
closeHandler_IgnoreQuiet(quiet, x) ==
  IF x.code # 0
  THEN [res |-> "reject", val |-> <<>>, err |-> commandFailed(x.code, x.stderr)]
  ELSE [res |-> "resolve", val |-> x.out, err |-> NoErr]

closeHandler(quiet, x) ==
  IF x.code # 0 /\ ~quiet
  THEN [res |-> "reject", val |-> <<>>, err |-> commandFailed(x.code, x.stderr)]
  ELSE [res |-> "resolve", val |-> x.out, err |-> NoErr]

\* sshConnection.exec threw, or called back with an error: no command ran
Rejected(err, conn, r, b) ==
  [res |-> "reject", val |-> <<>>, err |-> err, conn |-> conn, r |-> r, budget |-> b,
   run |-> NoRun]

\* runOnce(): what one sshConnection.exec(command, ...) settles with.  The
\* transport may be lost before the command is sent, the channel may fail to
\* open, or the command runs and its stream closes with an exit status.
runOnce(cmd, quiet, r) ==
  IF sshConnection = "null" THEN {Rejected(E_NULLDEREF, "null", r, budget)}
  ELSE IF sshConnection = "ended" THEN {Rejected(E_NOTCONN, "ended", r, budget)}
  ELSE (IF budget > 0
        THEN {Rejected(E_NOTCONN, "ended", r, budget - 1),
              Rejected(E_CHANNEL, "ready", r, budget - 1)}
        ELSE {})
       \cup
       {closeHandler(quiet, x) @@
          [conn |-> "ready", r |-> x.r, budget |-> budget,
           run |-> [code |-> x.code, out |-> x.out, stderr |-> x.stderr, ran |-> TRUE]] :
        x \in remoteExec(cmd, r)}

\* the call sites reached after an `await sleep(...)`: the later rounds of the
\* three polling loops
SleptBefore(f) == f.pc \in {"p_tail", "g_ss0", "g_ss"} /\ f.polls > 0

\* the host as the next command finds it
Elapse(f, first) ==
  IF first /\ SleptBefore(f) THEN hostProgress(remote) ELSE {remote}

\* Settle the call of the top activation with `result` (the activation goes
\* on at its pc with the result in ret).
Settle(f, result) ==
  /\ stack' = SetTop([f EXCEPT !.call = NoCall])
  /\ ret' = result

PushConnect(f) == stack' = Append(SetTop(f), Frame("connect", FALSE))

\* try { return await runOnce() } catch (err) { if not connected: disconnect();
\* await connect(); return await runOnce() } -- `first` tells which runOnce.
RunAndSettle(first) ==
  LET f == Top
      c == [f.call EXCEPT !.runs = @ + 1]
  IN \E r \in Elapse(f, first) : \E o \in runOnce(f.call.cmd, f.call.quiet, r) :
       /\ remote' = o.r
       /\ budget' = o.budget
       /\ IF o.res = "resolve"
          THEN /\ Settle(f, Returned("executeRemote", o.val, c, o.run))
               /\ sshConnection' = o.conn
          ELSE IF first /\ notConnectedSignature(o.err)
          THEN /\ sshConnection' = disconnect(o.conn)
               /\ PushConnect([f EXCEPT !.call = [c EXCEPT !.phase = "reconnect",
                                                          !.reconnects = @ + 1,
                                                          !.first = o.err,
                                                          !.firstRun = o.run]])
               /\ ret' = NoRet
          ELSE /\ Settle(f, Thrown("executeRemote", o.err, c, o.run))
               /\ sshConnection' = o.conn
       /\ UNCHANGED <<orphans, env, done>>

\* entry of executeRemote: if (!sshConnection) await connect(...)
ExecStart ==
  /\ ~Idle /\ Top.call.phase = "start"
  /\ IF sshConnection = "null"
     THEN /\ PushConnect([Top EXCEPT !.call.phase = "connect"])
          /\ UNCHANGED <<sshConnection, orphans, ret, remote, env, budget, done>>
     ELSE RunAndSettle(TRUE)
  /\ UNCHANGED <<sync, callers>>

\* the connect() awaited by executeRemote has settled
ExecResume ==
  /\ ~Idle /\ Top.call.phase \in {"connect", "reconnect"} /\ ret.kind # "none"
  /\ IF ret.kind = "throw"
     THEN /\ Settle(Top, Thrown("executeRemote", ret.err, Top.call, NoRun))
          /\ UNCHANGED <<sshConnection, orphans, remote, env, budget, done>>
     ELSE RunAndSettle(Top.call.phase = "connect")
  /\ UNCHANGED <<sync, callers>>

\* the caller's own executeRemote settled: the operation is over
ExecFinish ==
  /\ ~Idle /\ Top.op = "executeRemote" /\ Top.call.phase = "none" /\ ret.kind # "none"
  /\ stack' = Pop
  /\ done' = [op |-> "executeRemote"] @@ ret
  /\ ret' = NoRet
  /\ UNCHANGED <<sshConnection, orphans, remote, env, budget>>
  /\ UNCHANGED <<sync, callers>>

\* -------------------------------------------------------------------------
\* Provisioning: bootstrap and the functions it calls.  An activation of
\* connect() is at a call site (pc) of one executeRemote; when the call has
\* settled, the code up to the next call site runs in one step.
\* -------------------------------------------------------------------------
\* the { quiet } option of the call at each site
SiteQuiet(pc) == pc # "b_script"

SiteCmd(pc, f) ==
  CASE pc = "b_which" -> Cmd("which", NoModel)
    [] pc = "b_script" -> Cmd("script", NoModel)
    [] pc = "v_smi" -> Cmd("nvidia-smi", NoModel)
    [] pc \in {"m_cat", "c_cat"} -> Cmd("cat current_model", NoModel)
    [] pc = "p_start" -> Cmd("ollama pull", f.cands[f.cidx])
    [] pc \in {"p_tail", "p_tail50"} -> Cmd("tail ollama-pull.log", NoModel)
    [] pc = "p_list" -> Cmd("ollama list", NoModel)
    [] pc = "p_echo" -> Cmd("echo current_model", f.cands[f.cidx])
    [] pc = "c_fix" -> Cmd("fix config", f.model)
    [] pc = "c_status" -> Cmd("models status", NoModel)
    [] pc = "c_set" -> Cmd("models set", f.model)
    [] pc = "c_auth" -> Cmd("fix auth", NoModel)
    [] pc = "e_pgrep" -> Cmd("pgrep gateway", NoModel)
    [] pc \in {"e_ss", "g_ss0", "g_ss"} -> Cmd("ss", NoModel)
    [] pc \in {"g_ns0", "g_ns"} -> Cmd("netstat", NoModel)
    [] pc \in {"e_tail", "g_tail"} -> Cmd("tail gateway.log", NoModel)
    [] pc = "g_cmdv" -> Cmd("command -v openclaw", NoModel)
    [] pc = "g_apt" -> Cmd("install ss netstat", NoModel)
    [] pc = "g_token" -> Cmd("gateway_token", NoModel)
    [] pc = "g_pgrepo" -> Cmd("pgrep ollama", NoModel)
    [] pc = "g_serve" -> Cmd("ollama serve", NoModel)
    [] pc = "g_mkdir" -> Cmd("mkdir run", NoModel)
    [] pc = "g_stop" -> Cmd("gateway stop", NoModel)
    [] pc = "g_pkill1" -> Cmd("pkill openclaw-gateway", NoModel)
    [] pc = "g_pkill2" -> Cmd("pkill openclaw gateway", NoModel)
    [] pc = "g_killwd" -> Cmd("kill watchdog", NoModel)
    [] pc = "g_portkill" -> Cmd("kill port owner", NoModel)
    [] pc = "g_rm" -> Cmd("rm log pid", NoModel)
    [] pc = "g_touch" -> Cmd("touch log pid", NoModel)
    [] pc = "g_writewd" -> Cmd("write watchdog", NoModel)
    [] pc = "g_launch" -> Cmd("launch watchdog", NoModel)
    [] pc = "g_catpid" -> Cmd("cat gateway.pid", NoModel)
    [] pc \in {"g_ps", "g_psfinal"} -> Cmd("ps -p", NoModel)
    [] pc = "g_pgrep2" -> Cmd("pgrep -f openclaw gateway", NoModel)
    [] pc \in {"g_ls", "g_logstat"} -> Cmd("ls", NoModel)
    [] pc = "g_version" -> Cmd("openclaw --version", NoModel)
    [] pc = "g_help" -> Cmd("openclaw gateway --help", NoModel)
    [] pc = "w_mkdir" -> Cmd("mkdir workspace", NoModel)

\* How the code between two call sites ends: at the next call site, by an
\* exception leaving bootstrap, or by bootstrap returning.
Goto(f, pc) ==
  [t |-> "goto", err |-> NoErr,
   f |-> [f EXCEPT !.pc = pc, !.call = NewCall(SiteCmd(pc, f), SiteQuiet(pc))]]

Throw(f, err) == [t |-> "throw", err |-> err, f |-> f]

Return(f) == [t |-> "return", err |-> NoErr, f |-> f]

\* x.catch(() => dflt): the value the caller goes on with
OrElse(r, dflt) == IF r.kind = "throw" THEN dflt ELSE r.val

E_TIMEOUT(model) ==
  [code |-> "", message |-> <<"Timed out waiting for model pull:">>,
   class |-> "pulltimeout", names |-> {model}]

\* the Error pullModelForVRAM throws when every candidate failed: the text
\* names the primary model and carries lastError's message
ModelPullError(primaryModel, lastError) ==
  [code |-> "",
   message |-> <<"Model pull failed for all candidates.", "Last error:">>
                 \o (IF lastError = NoErr THEN <<"unknown error">> ELSE lastError.message),
   class |-> "modelpull",
   names |-> {primaryModel}
               \cup lastError.names]

\* ---- ensureOpenclawConfig, entered from bootstrap or from startGateway ----
getSelectedModel(e) ==
  IF e.override # NoModel THEN e.override
  ELSE IF e.selected # NoModel THEN e.selected
  ELSE <<"qwen3", "8b">>

EnterConfig(f, ra) ==
  LET g == [f EXCEPT !.ra = ra, !.model = getSelectedModel(env),
                     !.reconcile = [NoReconcile EXCEPT !.before = remote.cfg]]
  IN IF env.override = NoModel /\ env.selected = NoModel
     THEN Goto(g, "c_cat") ELSE Goto(g, "c_fix")

\* ---- waitForModel and the candidate loop of pullModelForVRAM ----
TryCandidate(f) ==
  IF f.cidx > Len(f.cands)
  THEN Throw([f EXCEPT !.cands = <<>>, !.cidx = 0, !.polls = 0],
             ModelPullError(f.primary, f.lastError))
  ELSE Goto([f EXCEPT !.attempted = Append(@, f.cands[f.cidx]), !.polls = 0], "p_start")

\* catch (err) { lastError = err } and on to the next candidate
NextCandidate(f, err) ==
  TryCandidate([f EXCEPT !.lastError = err, !.cidx = @ + 1])

EnterPull(f) ==
  LET primaryModel == selectModelForVRAM(env, f.vram)
  IN TryCandidate([f EXCEPT !.primary = primaryModel,
                            !.cands = buildModelCandidates(primaryModel),
                            !.cidx = 1, !.lastError = NoErr, !.attempted = <<>>,
                            !.present = <<>>])

\* the loop test of waitForModel after `polls` rounds: the first round always
\* runs (the timeout is positive), later the clock decides, and the model
\* stops at MaxPolls rounds
WaitLoop(f) ==
  (IF f.polls < MaxPolls THEN {Goto(f, "p_tail")} ELSE {})
  \cup (IF f.polls > 0 THEN {Goto(f, "p_tail50")} ELSE {})

\* pullModelForVRAM returned
AfterPull(f) ==
  LET g == [f EXCEPT !.cands = <<>>, !.cidx = 0, !.polls = 0, !.lastError = NoErr]
  IN IF f.fresh THEN Goto([g EXCEPT !.ra = "fresh"], "g_cmdv")
     ELSE EnterConfig(g, "bootstrap")

\* ---- the steps up to the gateway ----
ContinueBootstrap(f, r) ==
  CASE f.pc = "b_which" ->
         LET checkInstalled == OrElse(r, <<>>)
         IN IF checkInstalled # <<>> /\ ~f.force
            THEN {Goto([f EXCEPT !.fresh = FALSE], "v_smi")}
            ELSE {Goto([f EXCEPT !.fresh = TRUE], "b_script")}
    [] f.pc = "b_script" ->
         IF r.kind = "throw" THEN {Throw(f, r.err)} ELSE {Goto(f, "v_smi")}
    [] f.pc = "v_smi" ->
         \* parseInt(result.trim()), Math.floor(vramMB / 1024); catch: 12
         LET vram == IF r.kind = "throw" THEN 12
                     ELSE IF r.val = <<>> THEN NaN
                     ELSE r.val[1] \div 1024
             g == [f EXCEPT !.vram = vram,
                            !.smi = IF r.kind = "throw" THEN "threw"
                                    ELSE IF r.val = <<>> THEN "empty"
                                    ELSE "number"]
         IN IF f.fresh THEN {EnterPull(g)} ELSE {Goto(g, "m_cat")}
    [] f.pc = "m_cat" ->
         IF r.kind = "throw" THEN {Throw(f, r.err)}
         ELSE IF r.val # selectModelForVRAM(env, f.vram) THEN {EnterPull(f)}
         ELSE {EnterConfig(f, "bootstrap")}
    [] f.pc = "p_start" ->
         IF r.kind = "throw" THEN {NextCandidate(f, r.err)} ELSE WaitLoop(f)
    [] f.pc = "p_tail" ->
         IF r.kind = "throw" THEN {NextCandidate(f, r.err)}
         ELSE \* now - lastPresenceCheck > 20000: always in the first round
              {Goto([f EXCEPT !.polls = @ + 1], "p_list")}
              \cup (IF f.polls > 0 THEN WaitLoop([f EXCEPT !.polls = @ + 1]) ELSE {})
    [] f.pc = "p_list" ->
         IF r.kind = "throw" THEN {NextCandidate(f, r.err)}
         ELSE IF modelListed(r.val[1], f.cands[f.cidx])
         THEN {Goto([f EXCEPT !.present = Append(@, f.cands[f.cidx])], "p_echo")}
         ELSE WaitLoop(f)
    [] f.pc = "p_tail50" ->
         IF r.kind = "throw" THEN {NextCandidate(f, r.err)}
         ELSE {NextCandidate(f, E_TIMEOUT(f.cands[f.cidx]))}
    [] f.pc = "p_echo" ->
         IF r.kind = "throw" THEN {NextCandidate(f, r.err)} ELSE {AfterPull(f)}
    [] f.pc = "c_cat" ->
         LET currentModel == OrElse(r, <<>>)
         IN {Goto(IF currentModel # <<>> THEN [f EXCEPT !.model = currentModel] ELSE f,
                  "c_fix")}
    [] f.pc = "c_fix" ->
         {Goto([f EXCEPT !.reconcile.ran = r.kind = "return",
                         !.reconcile.after = remote.cfg], "c_status")}
    [] f.pc = "c_status" ->
         LET modelStatus == OrElse(r, <<>>)
         IN IF modelStatus = <<f.model, "Default">> THEN {Goto(f, "c_auth")}
            ELSE {Goto(f, "c_set")}
    [] f.pc = "c_set" -> {Goto(f, "c_auth")}
    [] f.pc = "c_auth" ->
         LET g == [f EXCEPT !.model = NoModel, !.ra = ""]
         IN IF f.ra = "bootstrap" THEN {Goto(g, "e_pgrep")}
            ELSE {IF env.token THEN Goto([g EXCEPT !.ra = f.ra], "g_pgrepo")
                  ELSE Goto([g EXCEPT !.ra = f.ra], "g_token")}

\* ---- ensureGatewayRunning and startGateway ----
\* for (let i = 0; i < 10; i += 1) while waiting for the port to be free
PortFreeTries == 10

\* text.includes(`:${port}`)
mentionsPort_Always(text) == TRUE

mentionsPort(text) == includes(text, GatewayPortLine)

\* what a port check really saw (kept beside the text the code reads)
Seen(r) == IF r.kind = "throw" THEN "unknown"
           ELSE IF remote.gwPort THEN "bound" ELSE "free"

E_NOOPENCLAW == MkErr("", <<"OpenClaw not found on remote">>, "gatewaystart")

GatewayStartError(f) ==
  MkErr("", <<"Gateway failed to start.", "PID:">> \o f.pid
              \o <<"Port check output:">> \o f.lastCheck, "gatewaystart")

\* the loop test of the startup poll: as in WaitLoop
StartupLoop(f) ==
  (IF f.polls < MaxPolls THEN {Goto(f, "g_ss")} ELSE {})
  \cup (IF f.polls > 0
        THEN {IF f.pid # <<>> THEN Goto([f EXCEPT !.gaveUp = "timeout"], "g_psfinal")
              ELSE Goto([f EXCEPT !.gaveUp = "timeout"], "g_ls")}
        ELSE {})

\* break out of the startup poll
StartupBreak(f) ==
  IF f.pid # <<>> THEN Goto([f EXCEPT !.gaveUp = "break"], "g_psfinal")
  ELSE Goto([f EXCEPT !.gaveUp = "break"], "g_ls")

\* startGateway returned
AfterStartGateway(f) ==
  LET g == [f EXCEPT !.polls = 0, !.pid = <<>>, !.lastCheck = <<>>, !.ss = <<>>,
                     !.ra = ""]
  IN IF f.ra = "fresh" THEN Goto(g, "w_mkdir") ELSE Return(g)

EnterStartGateway(f) == Goto([f EXCEPT !.ra = "ensure"], "g_cmdv")

ContinueGateway(f, r) ==
  CASE f.pc = "e_pgrep" ->
         IF OrElse(r, <<"1">>) # <<"0">>
         THEN {EnterStartGateway([f EXCEPT !.ensure = Ensured("restart", remote)])}
         ELSE {Goto(f, "e_ss")}
    [] f.pc = "e_ss" ->
         IF OrElse(r, <<>>) = <<>>
         THEN {EnterStartGateway([f EXCEPT !.portSeen = Seen(r),
                                           !.ensure = Ensured("restart", remote)])}
         ELSE {Goto([f EXCEPT !.portSeen = Seen(r)], "e_tail")}
    [] f.pc = "e_tail" ->
         LET tail == OrElse(r, <<>>)
         IN IF \E sig \in LogSignatures : includes(tail, sig)
            THEN {EnterStartGateway([f EXCEPT !.ensure = Ensured("restart", remote)])}
            ELSE {Return([f EXCEPT !.ensure = Ensured("healthy", remote)])}
    [] f.pc = "g_cmdv" ->
         IF OrElse(r, <<>>) = <<>> THEN {Throw(f, E_NOOPENCLAW)} ELSE {Goto(f, "g_apt")}
    [] f.pc = "g_apt" -> {EnterConfig(f, f.ra)}
    [] f.pc = "g_token" ->
         IF r.kind = "throw" THEN {Throw(f, r.err)} ELSE {Goto(f, "g_pgrepo")}
    [] f.pc = "g_pgrepo" ->
         IF OrElse(r, <<"no">>) # <<"yes">> THEN {Goto(f, "g_serve")}
         ELSE {Goto(f, "g_mkdir")}
    [] f.pc = "g_serve" -> {Goto(f, "g_mkdir")}
    [] f.pc = "g_mkdir" ->
         IF r.kind = "throw" THEN {Throw(f, r.err)} ELSE {Goto(f, "g_stop")}
    [] f.pc = "g_stop" -> {Goto(f, "g_pkill1")}
    [] f.pc = "g_pkill1" -> {Goto(f, "g_pkill2")}
    [] f.pc = "g_pkill2" -> {Goto(f, "g_killwd")}
    [] f.pc = "g_killwd" -> {Goto(f, "g_portkill")}
    [] f.pc = "g_portkill" -> {Goto([f EXCEPT !.polls = 0], "g_ss0")}
    [] f.pc = "g_ss0" ->
         {Goto([f EXCEPT !.ss = OrElse(r, <<>>), !.portSeen = Seen(r)], "g_ns0")}
    [] f.pc = "g_ns0" ->
         LET inUse == mentionsPort(f.ss \o OrElse(r, <<>>))
             g == [f EXCEPT !.ss = <<>>, !.polls = @ + 1,
                     !.portSeen = IF Seen(r) = "bound" \/ @ = "bound" THEN "bound"
                                  ELSE Seen(r)]
         IN IF inUse /\ g.polls < PortFreeTries THEN {Goto(g, "g_ss0")}
            ELSE {Goto([g EXCEPT !.polls = 0], "g_rm")}
    [] f.pc = "g_rm" ->
         IF r.kind = "throw" THEN {Throw(f, r.err)} ELSE {Goto(f, "g_touch")}
    [] f.pc = "g_touch" ->
         IF r.kind = "throw" THEN {Throw(f, r.err)} ELSE {Goto(f, "g_writewd")}
    [] f.pc = "g_writewd" ->
         IF r.kind = "throw" THEN {Throw(f, r.err)} ELSE {Goto(f, "g_launch")}
    [] f.pc = "g_launch" -> {Goto(f, "g_catpid")}
    [] f.pc = "g_catpid" -> StartupLoop([f EXCEPT !.pid = OrElse(r, <<>>), !.polls = 0])
    [] f.pc = "g_ss" ->
         {Goto([f EXCEPT !.ss = OrElse(r, <<>>), !.portSeen = Seen(r),
                         !.polls = @ + 1], "g_ns")}
    [] f.pc = "g_ns" ->
         LET check == f.ss \o OrElse(r, <<>>)
             g == [f EXCEPT !.ss = <<>>, !.lastCheck = check,
                     !.portSeen = IF Seen(r) = "bound" \/ @ = "bound" THEN "bound"
                                  ELSE Seen(r)]
         IN IF mentionsPort(check) THEN {AfterStartGateway(g)}
            ELSE IF f.pid # <<>> THEN {Goto(g, "g_ps")}
            ELSE {Goto(g, "g_pgrep2")}
    [] f.pc \in {"g_ps", "g_pgrep2"} ->
         IF OrElse(r, <<>>) = <<>> THEN {StartupBreak(f)} ELSE StartupLoop(f)
    [] f.pc = "g_psfinal" -> {Goto(f, "g_ls")}
    [] f.pc = "g_ls" -> {Goto(f, "g_logstat")}
    [] f.pc = "g_logstat" -> {Goto(f, "g_tail")}
    [] f.pc = "g_tail" -> {Goto(f, "g_version")}
    [] f.pc = "g_version" -> {Goto(f, "g_help")}
    [] f.pc = "g_help" -> {Throw(f, GatewayStartError(f))}
    [] f.pc = "w_mkdir" ->
         IF r.kind = "throw" THEN {Throw(f, r.err)} ELSE {Return(f)}

GatewaySites ==
  {"e_pgrep", "e_ss", "e_tail", "g_cmdv", "g_apt", "g_token", "g_pgrepo", "g_serve",
   "g_mkdir", "g_stop", "g_pkill1", "g_pkill2", "g_killwd", "g_portkill", "g_ss0",
   "g_ns0", "g_rm", "g_touch", "g_writewd", "g_launch", "g_catpid", "g_ss", "g_ns",
   "g_ps", "g_pgrep2", "g_psfinal", "g_ls", "g_logstat", "g_tail", "g_version",
   "g_help", "w_mkdir"}

Continue(f, r) ==
  IF f.pc \in GatewaySites THEN ContinueGateway(f, r) ELSE ContinueBootstrap(f, r)

PullOf(f) ==
  [primary |-> f.primary, attempted |-> f.attempted, present |-> f.present,
   vram |-> f.vram, smi |-> f.smi]

\* the state of the provisioning state machine a call site belongs to
\* (ensureOpenclawConfig runs in bootstrap before ensureGatewayRunning, and
\* inside startGateway)
StateOf(f) ==
  CASE f.pc = "b_which" -> "CheckInstalled"
    [] f.pc = "b_script" -> "Bootstrap"
    [] f.pc = "v_smi" -> "DetectHardware"
    [] f.pc = "m_cat" -> "EnsureModel"
    [] f.pc \in {"p_start", "p_tail", "p_list", "p_tail50", "p_echo"} -> "PullModel"
    [] f.pc \in {"c_cat", "c_fix", "c_status", "c_set", "c_auth"} ->
         IF f.ra = "bootstrap" THEN "EnsureGateway" ELSE "StartGateway"
    [] f.pc \in {"e_pgrep", "e_ss", "e_tail"} -> "EnsureGateway"
    [] f.pc = "w_mkdir" -> "SetupWorkspace"
    [] OTHER -> "StartGateway"

\* the executeRemote of the top connect() settled: go on to the next one, or
\* leave connect() -- return { connected: true, host }, or the catch at the
\* end of connect() rethrows the exception wrapped
Provision ==
  /\ ~Idle /\ Top.op = "connect" /\ Top.call.phase = "none" /\ ret.kind # "none"
  /\ \E o \in Continue(Top, ret) :
       CASE o.t = "goto" ->
              /\ stack' = SetTop(o.f)
              /\ ret' = NoRet
              /\ UNCHANGED done
         [] o.t = "throw" ->
              Deliver([Thrown("connect", connectFailed(o.err), NoCall, NoRun)
                         EXCEPT !.via = StateOf(o.f), !.pull = PullOf(o.f),
                                !.ensure = o.f.ensure,
                                !.reconcile = o.f.reconcile])
         [] o.t = "return" ->
              Deliver([Returned("connect", <<"connected:true">>, NoCall, NoRun)
                         EXCEPT !.seen = o.f.portSeen, !.pull = PullOf(o.f),
                                !.ensure = o.f.ensure,
                                !.reconcile = o.f.reconcile,
                                !.via = IF o.f.force THEN "forced"
                                        ELSE IF o.f.fresh THEN "fresh"
                                        ELSE "installed"])
  /\ UNCHANGED <<sshConnection, orphans, remote, env, budget>>
  /\ UNCHANGED <<sync, callers>>

\* -------------------------------------------------------------------------
\* The sync engine: files, listings and transfers
\* -------------------------------------------------------------------------
\* const subdirs = ['public', 'private', 'artifacts']
Subdirs == <<"public", "private", "artifacts">>

\* the names of the files there are
SyncNames == {"notes.md", "b.txt"}

Slots == {<<Subdirs[i], n>> : i \in 1..Len(Subdirs), n \in SyncNames}

\* a file is its bytes and its modification time in ms; the bytes there
\* are: none, "aa" and "bb" (two bytes each) and "ccc"
NoFile == [there |-> FALSE, content |-> "", mtime |-> 0]

File(content, mtime) == [there |-> TRUE, content |-> content, mtime |-> mtime]

Size(content) ==
  CASE content = "" -> 0
    [] content \in {"aa", "bb"} -> 2
    [] OTHER -> 3

EmptyTree == [s \in Slots |-> NoFile]

\* A path names a file of a subdir by what stands before the file's name:
\*   ""       <name>
\*   "~"      ~/mattyjacksbot/v1/sync/<subdir>/<name>
\*   "home"   /<home directory>/mattyjacksbot/v1/sync/<subdir>/<name>
\*   "nested" <home directory>/mattyjacksbot/v1/sync/<subdir>/<name>
Paths == [root : {"", "home", "nested"}, name : SyncNames]

NoPath == [root |-> "", name |-> ""]

\* files[relativePath] = { path, size: stat.size, mtime: stat.mtimeMs }
NoEntry == [there |-> FALSE, size |-> 0, mtime |-> 0]

\* join(root, subdir, path): the local file a path names.  A path that
\* begins with a separator is joined like any other, so "home" paths name
\* the file "nested" paths name.
localAt(s, subdir, p) ==
  IF p.root = "" THEN s.local[<<subdir, p.name>>] ELSE s.nested[<<subdir, p.name>>]

\* the walk of join(root, subdir): every file below it, keyed by
\* relative(dir, fullPath)
getLocalFiles(local, nested, subdir) ==
  [p \in Paths |->
     LET f == CASE p.root = "" -> local[<<subdir, p.name>>]
                [] p.root = "nested" -> nested[<<subdir, p.name>>]
                [] OTHER -> NoFile
     IN IF f.there
        THEN [there |-> TRUE, size |-> Size(f.content), mtime |-> f.mtime]
        ELSE NoEntry]

\* find ~/mattyjacksbot/v1/sync/<subdir> ...: the shell expands the unquoted
\* ~ and find prints each file under the start point it was given
findLine(n) == [root |-> "home", name |-> n]

\* fullPath.replace(`${remoteRoot}/${subdir}/`, '')
\*         .replace(/^~\/mattyjacksbot\/v1\/sync\/[^/]+\//, ''):
\* both strip a prefix that begins with ~
relativePath(fullPath) ==
  IF fullPath.root = "~" THEN [fullPath EXCEPT !.root = ""] ELSE fullPath

\* stat --format='%n|%s|%Y': %Y is in whole seconds, and the entry gets
\* parseInt(mtime) * 1000
getRemoteFiles(tree, subdir) ==
  [p \in Paths |->
     IF tree[<<subdir, p.name>>].there /\ relativePath(findLine(p.name)) = p
     THEN [there |-> TRUE, size |-> Size(tree[<<subdir, p.name>>].content),
           mtime |-> (tree[<<subdir, p.name>>].mtime \div 1000) * 1000]
     ELSE NoEntry]

\* the listing getRemoteFiles returns from its catch block
NoListing == [p \in Paths |-> NoEntry]

\* new Set([...Object.keys(localFiles), ...Object.keys(remoteFiles)]) in
\* iteration order: the local keys, then the keys only the remote has
NameOrder ==
  <<[root |-> "", name |-> "notes.md"], [root |-> "", name |-> "b.txt"],
    [root |-> "nested", name |-> "notes.md"], [root |-> "nested", name |-> "b.txt"],
    [root |-> "home", name |-> "notes.md"], [root |-> "home", name |-> "b.txt"]>>

allPaths(localFiles, remoteFiles) ==
  LET n == Len(NameOrder)
      locals[i \in 0..n] ==
        IF i = 0 THEN <<>>
        ELSE IF localFiles[NameOrder[i]].there
        THEN Append(locals[i - 1], NameOrder[i])
        ELSE locals[i - 1]
      remoteOnly[i \in 0..n] ==
        IF i = 0 THEN <<>>
        ELSE IF remoteFiles[NameOrder[i]].there /\ ~localFiles[NameOrder[i]].there
        THEN Append(remoteOnly[i - 1], NameOrder[i])
        ELSE remoteOnly[i - 1]
  IN locals[n] \o remoteOnly[n]

Abs(x) == IF x < 0 THEN 0 - x ELSE x

\* local.size !== remote.size || Math.abs(local.mtime - remote.mtime) > 1000
differs(localEntry, remoteEntry) ==
  \/ localEntry.size # remoteEntry.size
  \/ Abs(localEntry.mtime - remoteEntry.mtime) > 1000

\* the comparison of 'newest' with >= for >
resolveConflict_TieUploads(policy, localFile, remoteFile) ==
  CASE policy = "pc_wins" -> "upload"
    [] policy = "vast_wins" -> "download"
    [] policy = "keep_both" -> "both"
    [] OTHER -> IF localFile.mtime >= remoteFile.mtime THEN "upload" ELSE "download"

\* process.env.SYNC_CONFLICT_POLICY || 'newest'
resolveConflict(policy, localFile, remoteFile) ==
  CASE policy = "pc_wins" -> "upload"
    [] policy = "vast_wins" -> "download"
    [] policy = "keep_both" -> "both"
    [] OTHER -> IF localFile.mtime > remoteFile.mtime THEN "upload" ELSE "download"

\* content.toString('base64') and Buffer.from(text.trim(), 'base64'); the
\* empty text decodes to no bytes
toBase64(content) == <<"base64", content>>

fromBase64(text) == IF text = <<>> THEN "" ELSE text[2]

\* The remote shell expands ~ in an unquoted word to the home directory; in
\* a double-quoted word it does not, and the word names a path under a
\* directory called "~" in the working directory.
remoteRoot(quoted) == IF quoted THEN "tilde" ELSE "home"

\* the remote side: the tree under ~/mattyjacksbot/v1/sync, and the one under
\* ./~/mattyjacksbot/v1/sync with whether its subdir directories exist
NoRemote == [home |-> EmptyTree, tilde |-> EmptyTree, tildeDirs |-> FALSE]

\* echo "<base64>" | base64 -d > <remote root>/<subdir>/<path>: when the
\* directory of the file is missing the redirection fails and nothing is
\* written
remoteWrite(rem, root, subdir, p, content, now) ==
  IF p.root # "" THEN rem
  ELSE IF root = "home"
  THEN [rem EXCEPT !.home[<<subdir, p.name>>] = File(content, now)]
  ELSE IF rem.tildeDirs
  THEN [rem EXCEPT !.tilde[<<subdir, p.name>>] = File(content, now)]
  ELSE rem

\* the exit code of that command: that of the failed redirection, or 0
remoteWriteCode(rem, root, subdir, p) ==
  IF p.root = "" /\ (root = "home" \/ rem.tildeDirs) THEN 0 ELSE 1

\* base64 <remote root>/<subdir>/<path>: the stdout of the command (nothing
\* when there is no file)
remoteRead(rem, root, subdir, p) ==
  LET f == IF p.root # "" THEN NoFile
           ELSE IF root = "home" THEN rem.home[<<subdir, p.name>>]
           ELSE rem.tilde[<<subdir, p.name>>]
  IN IF f.there THEN toBase64(f.content) ELSE <<>>

\* the exit code of that command: 1 when base64 cannot open the file
remoteReadCode(rem, root, subdir, p) ==
  IF remoteRead(rem, root, subdir, p) = <<>> THEN 1 ELSE 0

\* const result = { uploaded: 0, downloaded: 0, conflicts: [], errors: [] }
NoResult == [uploaded |-> 0, downloaded |-> 0, conflicts |-> <<>>, errors |-> <<>>]

\* The engine: the local files at plain and at nested paths, the remote
\* side, the backup directory and the .sync-conflict-local copies; the pass
\* in progress (pc, its options, the subdir it is at, the two listings of
\* that subdir, the paths still to do, the path it is at and the transfers
\* it still owes that path, its result); the clock and lastSync of
\* sync_state.json.  History of the pass: how many of its commands were
\* rejected, how many exceptions its transfers threw, both trees as it found
\* them, the transfers it completed with the exit code of their command, and
\* how many paths it decided to upload and to download; `settled` is whether
\* the last pass that returned was a real one with no error and no rejection.
NoSync ==
  [local |-> EmptyTree, nested |-> EmptyTree, rem |-> NoRemote,
   backups |-> {}, copies |-> {},
   pc |-> "idle", dryRun |-> FALSE, dir |-> 0,
   localFiles |-> NoListing, remoteFiles |-> NoListing, rejected |-> 0,
   thrown |-> 0, decided |-> [uploads |-> 0, downloads |-> 0], settled |-> FALSE,
   queue |-> <<>>, cur |-> NoPath, todo |-> <<>>, result |-> NoResult,
   clock |-> 0, lastSync |-> 0, passes |-> 0,
   before |-> [local |-> EmptyTree, nested |-> EmptyTree, home |-> EmptyTree],
   log |-> <<>>]

\* saveSyncState at the end of each subdir
Advance_SavesEarly(s) ==
  IF s.todo # <<>> THEN [s EXCEPT !.pc = "transfer"]
  ELSE IF s.queue # <<>> THEN [s EXCEPT !.pc = "file"]
  ELSE [s EXCEPT !.pc = "save"]

\* where the pass goes next: the transfers owed to the current path, the
\* next path of the subdir, the next subdir, and saveSyncState
Advance(s) ==
  IF s.todo # <<>> THEN [s EXCEPT !.pc = "transfer"]
  ELSE IF s.queue # <<>> THEN [s EXCEPT !.pc = "file"]
  ELSE IF s.dir < Len(Subdirs) THEN [s EXCEPT !.pc = "list", !.dir = @ + 1]
  ELSE [s EXCEPT !.pc = "save"]

\* the exception leaving runSync instead: nothing recorded, the pass over
Caught_Aborts(s, message) ==
  [s EXCEPT !.todo = <<>>, !.queue = <<>>, !.pc = "idle", !.passes = @ + 1,
            !.settled = FALSE]

\* catch (error) { result.errors.push({ path, error: error.message }) }: the
\* rest of what the path was owed is skipped
Caught(s, message) ==
  Advance([s EXCEPT !.todo = <<>>,
             !.result.errors = Append(@, [dir |-> Subdirs[s.dir], path |-> s.cur,
                                          error |-> message])])

\* backupFile: copy the local file, if it exists, into the backup directory
backupFile(s, subdir, p) ==
  IF localAt(s, subdir, p).there
  THEN [s EXCEPT !.backups = @ \cup {[dir |-> subdir, path |-> p,
                                       content |-> localAt(s, subdir, p).content,
                                       at |-> s.clock]}]
  ELSE s

\* the body of the loop over allPaths up to its first await
processPath(s, p) ==
  LET subdir == Subdirs[s.dir]
      localEntry == s.localFiles[p]
      remoteEntry == s.remoteFiles[p]
      t == [s EXCEPT !.cur = p, !.queue = Tail(@)]
  IN IF localEntry.there /\ ~remoteEntry.there
     THEN IF s.dryRun THEN [t EXCEPT !.result.uploaded = @ + 1, !.decided.uploads = @ + 1]
          ELSE [t EXCEPT !.todo = <<"upload">>, !.decided.uploads = @ + 1]
     ELSE IF ~localEntry.there /\ remoteEntry.there
     THEN IF s.dryRun
          THEN [t EXCEPT !.result.downloaded = @ + 1, !.decided.downloads = @ + 1]
          ELSE [t EXCEPT !.todo = <<"download">>, !.decided.downloads = @ + 1]
     ELSE IF localEntry.there /\ remoteEntry.there /\ differs(localEntry, remoteEntry)
     THEN LET resolution == resolveConflict(env.policy, localEntry, remoteEntry)
              u == [t EXCEPT !.result.conflicts =
                               Append(@, [dir |-> subdir, path |-> p,
                                          resolution |-> resolution]),
                             !.decided.uploads =
                               IF resolution \in {"upload", "both"} THEN @ + 1 ELSE @,
                             !.decided.downloads =
                               IF resolution \in {"download", "both"} THEN @ + 1 ELSE @]
          IN IF s.dryRun THEN u
             ELSE [backupFile(u, subdir, p) EXCEPT
                     !.todo = CASE resolution = "upload" -> <<"upload">>
                                [] resolution = "download" -> <<"download">>
                                [] OTHER -> <<"upload", "copy", "download">>]
     ELSE t

\* uploadFile after its mkdir: read the local file and write it remotely,
\* the path in double quotes
uploadFile(s, subdir, p) ==
  LET base64 == toBase64(localAt(s, subdir, p).content)
  IN [s EXCEPT !.rem = remoteWrite(@, remoteRoot(TRUE), subdir, p,
                                   fromBase64(base64), s.clock),
               !.result.uploaded = @ + 1,
               !.log = Append(@, [op |-> "upload", dir |-> subdir, path |-> p,
                                  code |-> remoteWriteCode(s.rem, remoteRoot(TRUE),
                                                           subdir, p)]),
               !.todo = Tail(@)]

\* writeFileSync(join(root, subdir, path), content)
localWrite(s, subdir, p, content) ==
  IF p.root = ""
  THEN [s EXCEPT !.local[<<subdir, p.name>>] = File(content, s.clock)]
  ELSE [s EXCEPT !.nested[<<subdir, p.name>>] = File(content, s.clock)]

\* downloadFile from its executeRemote on: read the remote file, the path in
\* double quotes, and write what came
downloadFile(s, subdir, p) ==
  LET base64 == remoteRead(s.rem, remoteRoot(TRUE), subdir, p)
  IN [localWrite(s, subdir, p, fromBase64(base64)) EXCEPT
        !.result.downloaded = @ + 1,
        !.log = Append(@, [op |-> "download", dir |-> subdir, path |-> p,
                           code |-> remoteReadCode(s.rem, remoteRoot(TRUE),
                                                   subdir, p)]),
        !.todo = Tail(@)]

\* copyFileSync(path, path with .sync-conflict-local before its extension)
copyConflictLocal(s, subdir, p) ==
  [s EXCEPT !.copies = @ \cup {[dir |-> subdir, path |-> p,
                                content |-> localAt(s, subdir, p).content]},
            !.todo = Tail(@)]

\* localPath.substring(0, localPath.lastIndexOf('\\')) with mkdirSync when
\* it does not exist: the directory of the file where paths have
\* backslashes.  Elsewhere it is the empty string: mkdirSync('') throws or
\* not, and when it does not, writeFileSync throws for a file whose
\* directory was not made.
localDirFails(platform, p) ==
  IF platform = "win32" THEN {FALSE}
  ELSE IF p.root = "" THEN {TRUE, FALSE}
  ELSE {TRUE}

E_ENOENT == MkErr("ENOENT", <<"ENOENT: no such file or directory, mkdir">>, "fs")

\* -------------------------------------------------------------------------
\* Initial states and the specification of the session manager, the
\* executor and provisioning
\* -------------------------------------------------------------------------
DefaultEnv ==
  [host |-> TRUE, cred |-> TRUE, retries |-> <<>>, token |-> FALSE,
   family |-> "qwen3-coder", override |-> NoModel, selected |-> NoModel,
   low |-> 10, mid |-> 12, high |-> 16,
   \* SYNC_CONFLICT_POLICY ("" when unset) and process.platform
   policy |-> "", platform |-> "win32"]

InitEnvs ==
  {[DefaultEnv EXCEPT !.retries = <<n>>] : n \in 0..MaxRetries}
  \cup {[DefaultEnv EXCEPT !.host = FALSE], [DefaultEnv EXCEPT !.cred = FALSE]}

BareHost ==
  [openclaw |-> FALSE, ollama |-> FALSE, ollamaUp |-> FALSE, gpuMB |-> 12288,
   marker |-> NoModel, catalog |-> {}, registry |-> {<<"qwen3-coder", "14b">>},
   pulls |-> {}, cfg |-> NoDoc,
   cfgModel |-> NoModel, token |-> FALSE,
   gwProc |-> FALSE, gwPort |-> FALSE, gwLog |-> "", watchdog |-> FALSE,
   \* a watchdog is alive that gateway_watchdog.pid does not name; the gateway
   \* process is not one the live watchdogs launched
   strayWd |-> FALSE, gwOrphan |-> FALSE]

ProvisionedHost ==
  [BareHost EXCEPT !.openclaw = TRUE, !.ollama = TRUE, !.ollamaUp = TRUE,
     !.marker = <<"qwen3-coder", "14b">>, !.catalog = {<<"qwen3-coder", "14b">>},
     !.registry = {<<"qwen3-coder", "14b">>},
     !.cfg = fixConfig(InstallDoc),
     !.cfgModel = <<"qwen3-coder", "14b">>, !.token = TRUE,
     !.gwProc = TRUE, !.gwPort = TRUE, !.watchdog = TRUE]

InitHosts ==
  {BareHost,
   ProvisionedHost,
   [ProvisionedHost EXCEPT !.gwLog = "Unknown model:"],
   [ProvisionedHost EXCEPT !.gwPort = FALSE],
   [ProvisionedHost EXCEPT !.gwProc = FALSE, !.gwPort = FALSE, !.watchdog = FALSE]}

\* the callers of the module: the sync engine and the control panel
CallerIds == {"sync", "panel"}

NoCallers ==
  [pc |-> [c \in CallerIds |-> "idle"], calls |-> [c \in CallerIds |-> 0],
   inflight |-> {}]

SessionStart ==
  /\ callers = NoCallers
  /\ sshConnection = "null"
  /\ orphans = 0
  /\ stack = <<>>
  /\ ret = NoRet
  /\ budget = MaxEvents
  /\ done = [op |-> "none"] @@ NoRet

Start ==
  /\ SessionStart
  /\ sync = NoSync

Init ==
  /\ Start
  /\ \/ remote \in InitHosts /\ env = DefaultEnv
     \/ remote = ProvisionedHost /\ env \in InitEnvs

Next ==
  \/ OpConnect
  \/ OpExecute
  \/ OpDisconnect
  \/ OpStatus
  \/ ConnectEntry
  \/ ConnectAttempt
  \/ ConnectBackoff
  \/ ConnectFail
  \/ ExecStart
  \/ ExecResume
  \/ ExecFinish
  \/ Provision

Spec == Init /\ [][Next]_vars

\* -------------------------------------------------------------------------
\* The same program on hosts whose model store is the interesting part: the
\* marker file, the catalog `ollama list` prints and the registry `ollama
\* pull` can fetch from.
\* -------------------------------------------------------------------------
Primary == <<"qwen3-coder", "14b">>

StoreHost(marker, catalog, registry) ==
  [ProvisionedHost EXCEPT !.marker = marker, !.catalog = catalog, !.registry = registry]

PullEnv == [DefaultEnv EXCEPT !.retries = <<1>>]

InitPull ==
  /\ Start
  /\ \/ /\ env = PullEnv
        /\ remote \in
             {StoreHost(NoModel, {}, {Primary}),
              StoreHost(NoModel, {}, {}),
              StoreHost(NoModel, {}, {<<"qwen3-coder", "latest">>}),
              StoreHost(NoModel, {<<"qwen3-coder", "14b-q4">>}, {}),
              StoreHost(NoModel, {<<"qwen3-coder", "latest">>}, {}),
              StoreHost(Primary, {}, {Primary}),
              StoreHost(Primary, {Primary}, {Primary})}
     \/ /\ env = [PullEnv EXCEPT !.family = "Qwen3"]
        /\ remote = StoreHost(NoModel, {<<"qwen3", "14b">>}, {})

SpecPull == InitPull /\ [][Next]_vars

\* -------------------------------------------------------------------------
\* The same program where hardware detection and model selection are the
\* interesting part: what nvidia-smi prints, MODEL_FAMILY, MODEL_OVERRIDE and
\* the three VRAM_THRESHOLD_* settings (after parseInt; nothing orders or
\* validates them).  Every model these settings can select is in the store
\* under its :latest tag, and the marker file is absent, so each connect()
\* runs selectModelForVRAM in pullModelForVRAM.
\* -------------------------------------------------------------------------
Override == <<"llama3", "8b">>

SelectHost(gpuMB) ==
  [ProvisionedHost EXCEPT !.gpuMB = gpuMB, !.marker = NoModel,
     !.catalog = {<<"qwen3-coder", "latest">>, <<"qwen3", "latest">>,
                  <<"llama3", "latest">>}]

GpuReadings == {NaN, 8192, 16384}

Thresholds == {<<10, 12, 16>>, <<20, 12, 8>>, <<10, 20, 16>>, <<NaN, 12, 16>>}

SelectEnv(family, override, t) ==
  [PullEnv EXCEPT !.family = family, !.override = override,
                  !.low = t[1], !.mid = t[2], !.high = t[3]]

SelectEnvs ==
  {SelectEnv(family, NoModel, t) :
     family \in {"qwen3-coder", "qwen3"}, t \in Thresholds}
  \cup {SelectEnv(family, Override, t) :
          family \in {"qwen3-coder", "qwen3"}, t \in {<<10, 12, 16>>, <<NaN, 12, 16>>}}

InitSelect ==
  /\ Start
  /\ remote \in {SelectHost(g) : g \in GpuReadings}
  /\ env \in SelectEnvs

SpecSelect == InitSelect /\ [][Next]_vars

\* -------------------------------------------------------------------------
\* The same program on hosts whose openclaw.json is the interesting part.
\* -------------------------------------------------------------------------
\* a document its owner edited: the listener, the timeout and the provider
\* are theirs
EditedFields ==
  [p \in CfgPaths |->
     CASE p \in {"agent.model", "agents.defaults.timeoutSeconds", "gateway.bind",
                  "gateway.port", "models.providers.ollama.apiKey",
                  "agents.defaults.model.fallbacks"} -> "user"
       [] p = "models.providers.ollama.models" -> "malformed"
       [] OTHER -> fixConfig(InstallDoc).fields[p]]

ConfigDocs ==
  {NoDoc, InstallDoc, fixConfig(InstallDoc),
   [form |-> "json", fields |-> EditedFields],
   [form |-> "json", fields |-> [EditedFields EXCEPT !["gateway.bind"] = "system"]],
   [form |-> "text", fields |-> [EditedFields EXCEPT !["gateway.bind"] = "system"]]}

InitConfig ==
  /\ Start
  /\ env = PullEnv
  /\ remote \in {[ProvisionedHost EXCEPT !.cfg = d] : d \in ConfigDocs}

SpecConfig == InitConfig /\ [][Next]_vars

\* -------------------------------------------------------------------------
\* The same program with the remote host running on its own: the gateway
\* may exit, and the watchdog script goes round its loop, whether or not the
\* controller is connected.  The gateway's own steps are taken between the
\* operations of the controller (what it does while an operation sleeps is
\* hostProgress); the watchdog's at any time.
\* -------------------------------------------------------------------------
\* the gateway process exits
GatewayExits ==
  /\ Idle /\ remote.gwProc
  /\ remote' = [remote EXCEPT !.gwProc = FALSE, !.gwPort = FALSE, !.gwOrphan = FALSE]
  /\ UNCHANGED <<sshConnection, orphans, stack, ret, env, budget, done, sync, callers>>

\* the gateway process binds its port
GatewayBinds ==
  /\ Idle /\ remote.gwProc /\ ~remote.gwPort
  /\ remote' = [remote EXCEPT !.gwPort = TRUE]
  /\ UNCHANGED <<sshConnection, orphans, stack, ret, env, budget, done, sync, callers>>

\* one round of `while true` in gateway_watchdog.sh once `wait` has returned:
\* with an empty token file it sleeps and starts over; otherwise it launches
\* `openclaw gateway run` and writes its pid to gateway.pid
WatchdogTurn ==
  /\ (remote.watchdog \/ remote.strayWd) /\ ~remote.gwProc
  /\ remote.token /\ remote.openclaw
  /\ remote' = [remote EXCEPT !.gwProc = TRUE]
  /\ UNCHANGED <<sshConnection, orphans, stack, ret, env, budget, done, sync, callers>>

WatchdogEnv == [DefaultEnv EXCEPT !.retries = <<1>>]

InitWatchdog ==
  /\ Start
  /\ \/ /\ env = WatchdogEnv
        /\ remote \in {ProvisionedHost,
                        [ProvisionedHost EXCEPT !.gwProc = FALSE, !.gwPort = FALSE,
                                                !.watchdog = FALSE]}
     \/ /\ env = [WatchdogEnv EXCEPT !.token = TRUE]
        /\ remote = [ProvisionedHost EXCEPT !.gwProc = FALSE, !.gwPort = FALSE,
                                            !.watchdog = FALSE, !.token = FALSE]

NextWatchdog ==
  \/ Next
  \/ GatewayExits
  \/ GatewayBinds
  \/ WatchdogTurn

\* a live watchdog goes on round its loop; the controller, its callers and
\* the gateway's exits are under no obligation
SpecWatchdog == InitWatchdog /\ [][NextWatchdog]_vars /\ WF_vars(WatchdogTurn)

\* -------------------------------------------------------------------------
\* The agent controls of the control panel and the bot, on the host running
\* on its own: stopAgent is three executeRemote calls, each with
\* .catch(() => null).
\* -------------------------------------------------------------------------
OpStopAgent ==
  /\ Idle /\ budget > 0
  /\ stack' = <<[Frame("stopAgent", FALSE) EXCEPT
                   !.pc = "g_stop",
                   !.call = NewCall(SiteCmd("g_stop", Frame("stopAgent", FALSE)), TRUE)]>>
  /\ budget' = budget - 1
  /\ done' = [op |-> "stopAgent"] @@ NoRet
  /\ UNCHANGED <<sshConnection, orphans, ret, remote, env>>
  /\ UNCHANGED <<sync, callers>>

\* the call of stopAgent settled: on to the next one, or return { stopped: true }
StopAgentStep ==
  /\ ~Idle /\ Top.op = "stopAgent" /\ Top.call.phase = "none" /\ ret.kind # "none"
  /\ IF Top.pc = "g_pkill2"
     THEN Deliver(Returned("stopAgent", <<"stopped:true">>, NoCall, NoRun))
     ELSE /\ stack' = SetTop(Goto(Top, IF Top.pc = "g_stop" THEN "g_pkill1"
                                       ELSE "g_pkill2").f)
          /\ ret' = NoRet
          /\ UNCHANGED done
  /\ UNCHANGED <<sshConnection, orphans, remote, env, budget>>
  /\ UNCHANGED <<sync, callers>>

InitAgent ==
  /\ Start
  /\ env = WatchdogEnv
  /\ remote = ProvisionedHost

NextAgent ==
  \/ NextWatchdog
  \/ OpStopAgent
  \/ StopAgentStep

SpecAgent == InitAgent /\ [][NextAgent]_vars /\ WF_vars(WatchdogTurn)

\* -------------------------------------------------------------------------
\* The sync engine.  Its executeRemote calls are taken by their outcome: the
\* stdout of the command, or a rejection (the budget counts these as it
\* counts channel faults); its commands are all run quiet.
\* -------------------------------------------------------------------------
\* a caller starts runSync(options)
OpSync ==
  /\ Idle /\ sync.pc = "idle" /\ budget > 0
  /\ \E dryRun \in BOOLEAN :
       sync' = [sync EXCEPT !.pc = "list", !.dryRun = dryRun, !.dir = 1,
                            !.result = NoResult, !.rejected = 0, !.thrown = 0,
                            !.decided = [uploads |-> 0, downloads |-> 0],
                            !.clock = @ + PassInterval,
                            !.before = [local |-> sync.local, nested |-> sync.nested,
                                        home |-> sync.rem.home],
                            !.log = <<>>]
  /\ budget' = budget - 1
  /\ UNCHANGED <<sshConnection, orphans, stack, ret, remote, env, done>>
  /\ UNCHANGED callers

\* getLocalFiles and getRemoteFiles of the subdir the pass is at
SyncList ==
  /\ sync.pc = "list"
  /\ \E failed \in IF budget > 0 THEN {FALSE, TRUE} ELSE {FALSE} :
       LET subdir == Subdirs[sync.dir]
           localFiles == getLocalFiles(sync.local, sync.nested, subdir)
           remoteFiles == IF failed THEN NoListing
                          ELSE getRemoteFiles(sync.rem.home, subdir)
       IN /\ sync' = Advance([sync EXCEPT !.localFiles = localFiles,
                                          !.remoteFiles = remoteFiles,
                                          !.rejected = IF failed THEN @ + 1 ELSE @,
                                          !.queue = allPaths(localFiles, remoteFiles)])
          /\ budget' = IF failed THEN budget - 1 ELSE budget
  /\ UNCHANGED <<sshConnection, orphans, stack, ret, remote, env, done>>
  /\ UNCHANGED callers

\* the next path of the subdir, up to its first transfer
SyncFile ==
  /\ sync.pc = "file"
  /\ sync' = Advance(processPath(sync, Head(sync.queue)))
  /\ UNCHANGED <<sshConnection, orphans, stack, ret, remote, env, budget, done>>
  /\ UNCHANGED callers

\* the next transfer owed to the current path
SyncTransfer ==
  /\ sync.pc = "transfer"
  /\ LET subdir == Subdirs[sync.dir]
         op == Head(sync.todo)
     IN \E rejected \in IF budget > 0 /\ op # "copy" THEN {FALSE, TRUE} ELSE {FALSE} :
          /\ budget' = IF rejected THEN budget - 1 ELSE budget
          /\ IF rejected
             THEN sync' = Caught([sync EXCEPT !.rejected = @ + 1, !.thrown = @ + 1],
                                 E_CHANNEL.message)
             ELSE CASE op = "upload" -> sync' = Advance(uploadFile(sync, subdir, sync.cur))
                    [] op = "copy" ->
                         sync' = Advance(copyConflictLocal(sync, subdir, sync.cur))
                    [] OTHER ->
                         \E fails \in localDirFails(env.platform, sync.cur) :
                           sync' = IF fails
                                   THEN Caught([sync EXCEPT !.thrown = @ + 1],
                                               E_ENOENT.message)
                                   ELSE Advance(downloadFile(sync, subdir, sync.cur))
  /\ UNCHANGED <<sshConnection, orphans, stack, ret, remote, env, done>>
  /\ UNCHANGED callers

\* saveSyncState without the test of dryRun
SyncSave_Always ==
  /\ sync.pc = "save"
  /\ sync' = [sync EXCEPT !.pc = "idle", !.passes = @ + 1, !.dir = 0, !.cur = NoPath,
                          !.localFiles = NoListing, !.remoteFiles = NoListing,
                          !.settled = ~sync.dryRun /\ sync.rejected = 0
                                       /\ sync.result.errors = <<>>,
                          !.lastSync = sync.clock]
  /\ UNCHANGED <<sshConnection, orphans, stack, ret, remote, env, budget, done>>
  /\ UNCHANGED callers

\* if (!dryRun) { state.lastSync = ...; saveSyncState } return result
SyncSave ==
  /\ sync.pc = "save"
  /\ sync' = [sync EXCEPT !.pc = "idle", !.passes = @ + 1, !.dir = 0, !.cur = NoPath,
                          !.localFiles = NoListing, !.remoteFiles = NoListing,
                          !.settled = ~sync.dryRun /\ sync.rejected = 0
                                       /\ sync.result.errors = <<>>,
                          !.lastSync = IF sync.dryRun THEN @ ELSE sync.clock]
  /\ UNCHANGED <<sshConnection, orphans, stack, ret, remote, env, budget, done>>
  /\ UNCHANGED callers

\* the trees a pass may find: per file, on neither side, on one, or on both
\* (equal; differing in size with either side newer; equal in size and time
\* but not in bytes; equal in bytes but not in time)
Pairings ==
  {<<NoFile, NoFile>>,
   <<File("aa", 5000), NoFile>>,
   <<NoFile, File("aa", 5000)>>,
   <<File("aa", 5000), File("aa", 5000)>>,
   <<File("aa", 0), File("ccc", 10000)>>,
   <<File("ccc", 10000), File("aa", 0)>>,
   <<File("aa", 5000), File("bb", 5400)>>,
   <<File("aa", 0), File("aa", 10000)>>}

SyncTrees ==
  {[local |-> [EmptyTree EXCEPT ![<<"public", "notes.md">>] = a[1],
                                ![<<"public", "b.txt">>] = c[1],
                                ![<<"private", "b.txt">>] = b[1],
                                ![<<"artifacts", "notes.md">>] = d[1]],
    home |-> [EmptyTree EXCEPT ![<<"public", "notes.md">>] = a[2],
                               ![<<"public", "b.txt">>] = c[2],
                               ![<<"private", "b.txt">>] = b[2],
                               ![<<"artifacts", "notes.md">>] = d[2]]] :
     a \in Pairings,
     b \in {<<NoFile, NoFile>>, <<NoFile, File("aa", 5000)>>,
             <<File("aa", 0), File("ccc", 10000)>>},
     c \in {<<NoFile, NoFile>>, <<File("bb", 5000), NoFile>>},
     d \in {<<NoFile, NoFile>>, <<File("ccc", 5000), NoFile>>}}

SyncEnvs ==
  {[DefaultEnv EXCEPT !.policy = policy, !.platform = platform] :
     policy \in {"", "newest", "pc_wins", "vast_wins", "keep_both"},
     platform \in {"win32", "linux"}}

InitSync ==
  /\ SessionStart
  /\ remote = ProvisionedHost
  /\ env \in SyncEnvs
  /\ \E t \in SyncTrees :
       sync = [NoSync EXCEPT !.local = t.local, !.rem.home = t.home]

NextSync ==
  \/ OpSync
  \/ SyncList
  \/ SyncFile
  \/ SyncTransfer
  \/ SyncSave

SpecSync == InitSync /\ [][NextSync]_vars

\* The body of the loop over allPaths as a function of the two entries it is
\* given: a pass at the first path of its first subdir, the path a key that
\* both listings hold, the entries drawn from the pairs of files.
ResolvePairs ==
  {p \in Pairings : p[1].there /\ p[2].there}
    \cup {<<File("aa", 5000), File("ccc", 5000)>>}

InitResolve ==
  /\ SessionStart
  /\ remote = ProvisionedHost
  /\ env \in SyncEnvs
  /\ \E pair \in ResolvePairs, dryRun \in BOOLEAN :
       LET slot == <<Subdirs[1], "notes.md">>
           key == [root |-> "", name |-> "notes.md"]
           local == [EmptyTree EXCEPT ![slot] = pair[1]]
           home == [EmptyTree EXCEPT ![slot] = pair[2]]
           localFiles == getLocalFiles(local, EmptyTree, Subdirs[1])
           listed == getRemoteFiles(home, Subdirs[1])[relativePath(findLine("notes.md"))]
       IN sync = [NoSync EXCEPT !.local = local, !.rem.home = home,
                                !.pc = "file", !.dryRun = dryRun, !.dir = 1,
                                !.clock = PassInterval,
                                !.before = [local |-> local, nested |-> EmptyTree,
                                            home |-> home],
                                !.localFiles = localFiles,
                                !.remoteFiles = [NoListing EXCEPT ![key] = listed],
                                !.queue = <<key>>]

SpecResolve == InitResolve /\ [][NextSync]_vars

\* -------------------------------------------------------------------------
\* Concurrent callers.  A caller of executeRemote runs until its next await;
\* there the event loop may run another caller.  A caller is idle, or awaits
\* the `ready` of the Client its connect() made ("connecting"), or the close
\* of a command of the bootstrap of that connect() ("boot"), or the close of
\* its own command ("running").  The commands of one bootstrap, issued one
\* after the other, are taken as one.
\* -------------------------------------------------------------------------
\* executeRemote up to its first await: if (!sshConnection) await connect(),
\* else sshConnection.exec(command, ...)
CallerEnters ==
  \E c \in CallerIds :
    /\ callers.pc[c] = "idle" /\ callers.calls[c] < MaxCalls
    /\ callers' =
         IF sshConnection = "null"
         THEN [callers EXCEPT !.calls[c] = @ + 1, !.pc[c] = "connecting"]
         ELSE [callers EXCEPT !.calls[c] = @ + 1, !.pc[c] = "running",
                              !.inflight = @ \cup {c}]
    /\ UNCHANGED <<sshConnection, orphans, stack, ret, remote, env, budget, done, sync>>

\* conn.on('ready'): sshConnection = conn; connect() goes on to bootstrap,
\* whose first executeRemote finds the handle set and starts its command
ClientReady ==
  \E c \in CallerIds :
    /\ callers.pc[c] = "connecting"
    /\ sshConnection' = "ready"
    /\ orphans' = IF sshConnection = "ready" THEN orphans + 1 ELSE orphans
    /\ callers' = [callers EXCEPT !.pc[c] = "boot", !.inflight = @ \cup {c}]
    /\ UNCHANGED <<stack, ret, remote, env, budget, done, sync>>

\* conn.on('error') at the last attempt: connect() throws and the caller's
\* executeRemote rejects
ClientError ==
  \E c \in CallerIds :
    /\ callers.pc[c] = "connecting"
    /\ callers' = [callers EXCEPT !.pc[c] = "idle"]
    /\ UNCHANGED <<sshConnection, orphans, stack, ret, remote, env, budget, done, sync>>

\* the last command of bootstrap closes: connect() returns, and the caller's
\* runOnce starts its command; or bootstrap throws and the caller's
\* executeRemote rejects
BootCloses ==
  \E c \in CallerIds, thrown \in BOOLEAN :
    /\ callers.pc[c] = "boot"
    /\ callers' = IF thrown
                  THEN [callers EXCEPT !.pc[c] = "idle", !.inflight = @ \ {c}]
                  ELSE [callers EXCEPT !.pc[c] = "running"]
    /\ UNCHANGED <<sshConnection, orphans, stack, ret, remote, env, budget, done, sync>>

\* stream.on('close'): the caller's executeRemote settles
CommandCloses ==
  \E c \in CallerIds :
    /\ callers.pc[c] = "running"
    /\ callers' = [callers EXCEPT !.pc[c] = "idle", !.inflight = @ \ {c}]
    /\ UNCHANGED <<sshConnection, orphans, stack, ret, remote, env, budget, done, sync>>

InitCallers ==
  /\ SessionStart
  /\ remote = ProvisionedHost
  /\ env = DefaultEnv
  /\ sync = NoSync

NextCallers ==
  \/ CallerEnters
  \/ ClientReady
  \/ ClientError
  \/ BootCloses
  \/ CommandCloses

SpecCallers == InitCallers /\ [][NextCallers]_vars

\* a pass that was started goes on: each await of runSync settles
PassStep == SyncList \/ SyncFile \/ SyncTransfer \/ SyncSave

SpecSyncFair == SpecSync /\ WF_vars(PassStep)

\* -------------------------------------------------------------------------
\* Properties of the session manager
\* -------------------------------------------------------------------------
Frames == {stack[i] : i \in 1..Len(stack)}

\* what the call that just finished handed to its caller
Outcome == IF Idle THEN done ELSE ret

IsPrefix(s, t) == Len(s) <= Len(t) /\ SubSeq(t, 1, Len(s)) = s

RECURSIVE Rounds(_, _)
Rounds(addrs, n) == IF n <= 0 THEN <<>> ELSE addrs \o Rounds(addrs, n - 1)

\* the retry ceiling as configured: VAST_SSH_CONNECT_RETRIES, 5 when unset
Ceiling == IF env.retries = <<>> THEN 5 ELSE env.retries[1]

Wrapped(err) == <<"SSH connection failed:">> \o err.message

LeavesConnect == ~Idle /\ Top.op = "connect" /\ Top.pc = "cwr_fail"

C1_State ==
  /\ \A err \in ConnectErrors :
       err.class \notin RetryableClasses => ~isRetryableConnectError(err)
  /\ \A f \in Frames : f.fatal # 0 =>
       /\ f.pc = "cwr_fail"
       /\ Len(f.tried) = f.fatal
       /\ Len(f.slept) = f.fatalSlept
       /\ f.lastErr = f.lastSeen
       /\ f.lastErr.class \notin RetryableClasses

C1_Step ==
  (LeavesConnect /\ Top.fatal # 0)
    => /\ Len(stack') = Len(stack) - 1
       /\ Outcome'.kind = "throw"
       /\ Outcome'.err.message = Wrapped(Top.lastSeen)

\* C1: a connection attempt that fails with a non-retryable error (not
\* refused, reset, timed out or unreachable) ends connectWithRetry on the
\* spot: the failed attempt is the last address tried, no sleep is taken after
\* it, and connect throws that error (wrapped).
C1_NonRetryableFailsAtOnce == []C1_State /\ [][C1_Step]_vars

\* an authentication or lookup failure on the first of two addresses, with
\* retry rounds still available
C1_Witness ==
  \E f \in Frames :
    /\ f.pc = "cwr_fail" /\ f.fatal = 1
    /\ Len(f.addrs) = 2 /\ Ceiling >= 2
    /\ f.tried = <<f.addrs[1]>> /\ f.slept = <<>>

C4_State ==
  \A f \in Frames :
    /\ IsPrefix(f.tried, Rounds(f.addrs, Ceiling))
    /\ Len(f.tried) <= Ceiling * Len(f.addrs)
    /\ Len(f.slept) <= Ceiling
    /\ (f.pc = "cwr_fail" /\ f.fatal = 0) =>
         /\ f.tried = Rounds(f.addrs, Ceiling)
         /\ f.lastErr = f.lastSeen
         /\ f.tried # <<>> => f.lastErr.class \in RetryableClasses

C4_Step ==
  (LeavesConnect /\ Top.fatal = 0)
    => /\ Len(stack') = Len(stack) - 1
       /\ Outcome'.kind = "throw"
       /\ Top.tried # <<>> => Outcome'.err.message = Wrapped(Top.lastSeen)

\* C4: when every attempt fails with a retryable error, connectWithRetry tries
\* the resolved addresses in order, round after round, for exactly the
\* configured ceiling of rounds (5 when unset), so never more than ceiling x
\* addresses attempts, and connect then throws the last attempt's error
\* (wrapped).
C4_BoundedRetries == []C4_State /\ [][C4_Step]_vars

\* the default ceiling used up over two addresses
C4_Witness ==
  \E f \in Frames :
    /\ f.pc = "cwr_fail" /\ f.fatal = 0 /\ env.retries = <<>>
    /\ Len(f.addrs) = 2 /\ Len(f.tried) = 10 /\ Len(f.slept) = 5

\* -------------------------------------------------------------------------
\* Properties of the executor
\* -------------------------------------------------------------------------
\* the settled executeRemote calls a state shows
ExecResults ==
  {r \in {ret, [x \in DOMAIN ret |-> done[x]]} :
     r.kind # "none" /\ r.from = "executeRemote"}

\* the message, lower-cased, contains 'not connected'
HasSignature(err) ==
  \E i \in 1..Len(err.message) : Lower(err.message[i]) = "not connected"

C2_State ==
  /\ \A f \in Frames :
       /\ f.call.runs <= 1 /\ f.call.reconnects <= 1
       /\ f.call.phase \in {"start", "connect"} =>
            f.call.runs = 0 /\ f.call.reconnects = 0
       /\ f.call.phase = "reconnect" =>
            f.call.runs = 1 /\ f.call.reconnects = 1 /\ HasSignature(f.call.first)
  /\ \A r \in ExecResults :
       /\ r.call.runs <= 2 /\ r.call.reconnects <= 1
       /\ r.call.runs = 2 => r.call.reconnects = 1 /\ HasSignature(r.call.first)
       /\ r.call.runs = 1 /\ r.call.reconnects = 0 /\ r.kind = "throw" =>
            ~HasSignature(r.err)
       /\ r.call.runs = 1 /\ r.call.reconnects = 1 =>
            r.kind = "throw" /\ r.err.class = "connect"
       /\ r.call.runs = 0 => r.kind = "throw" /\ r.err.class \in {"connect", "config"}

\* starting the reconnect: after disconnect() the handle is null and connect()
\* is entered
C2_Step ==
  (~Idle /\ Len(stack') = Len(stack) + 1 /\ stack'[Len(stack)].call.phase = "reconnect")
    => /\ sshConnection' = "null"
       /\ stack'[Len(stack')].op = "connect" /\ stack'[Len(stack')].pc = "entry"
       /\ stack'[Len(stack)].call.cmd = Top.call.cmd

\* C2: executeRemote runs its command once; a first run that fails with the
\* 'not connected' signature is followed by disconnect, connect and exactly
\* one more run of the same command, whose outcome is the call's outcome; a
\* first-run failure without the signature is thrown with no reconnect.  One
\* call runs its command at most twice.
C2_AtMostOneRetry == []C2_State /\ [][C2_Step]_vars

\* a caller's command ran twice and the second run failed with the signature too
C2_Witness ==
  /\ done.op = "executeRemote" /\ done.kind = "throw"
  /\ done.call.runs = 2 /\ done.call.reconnects = 1
  /\ HasSignature(done.err)

FailureOf(run) == <<"Command failed with code", ToString(run.code), ":">> \o run.stderr

C5_State ==
  /\ \A r \in ExecResults : r.run.ran =>
       /\ r.run.code # 0 /\ ~r.call.quiet =>
            r.kind = "throw" /\ r.err.message = FailureOf(r.run)
       /\ r.run.code # 0 /\ r.call.quiet =>
            r.kind = "return" /\ r.val = r.run.out
       /\ r.run.code = 0 => r.kind = "return" /\ r.val = r.run.out
  /\ \A f \in Frames : (f.call.phase = "reconnect" /\ f.call.firstRun.ran) =>
       /\ f.call.firstRun.code # 0 /\ ~f.call.quiet
       /\ f.call.first.message = FailureOf(f.call.firstRun)

\* C5: a run that ends with a non-zero exit status is rejected with an error
\* whose message carries the status and the captured stderr unless the call
\* is quiet, and with quiet it resolves with the captured stdout.
C5_NonZeroExit == []C5_State

\* a quiet call of a command that printed something and exited 1
C5_Witness ==
  /\ done.op = "executeRemote" /\ done.kind = "return"
  /\ done.call.quiet /\ done.run.ran /\ done.run.code = 1
  /\ done.val = <<"partial">>

\* -------------------------------------------------------------------------
\* Properties of provisioning
\* -------------------------------------------------------------------------
\* the connect() calls a state shows as returned
Connected ==
  {r \in {ret, [x \in DOMAIN ret |-> done[x]]} : r.kind = "return" /\ r.from = "connect"}

\* C3: whenever connect() returns, on the path for installed software, for a
\* fresh install and for a forced install, the last check of the gateway
\* port that provisioning made saw the port bound.
C3_ReturnsAfterPortSeen == \A r \in Connected : r.seen = "bound"

\* connect returned after a fresh install
C3_Witness ==
  /\ done.op = "connect" /\ done.kind = "return"
  /\ done.via = "fresh" /\ done.seen = "bound"

\* -------------------------------------------------------------------------
\* Properties of the session handle
\* -------------------------------------------------------------------------
\* the Clients whose transport is open
LiveConnections == (IF sshConnection = "ready" THEN 1 ELSE 0) + orphans

\* C6: after any sequence of connect, executeRemote and disconnect calls at
\* most one connection is open, and none is open without being referenced by
\* the session handle.
C6_AtMostOneLive == LiveConnections <= 1 /\ orphans = 0

\* the connect() calls a state shows as failed after the transport was ready
FailedProvisioning ==
  {r \in {ret, [x \in DOMAIN ret |-> done[x]]} :
     r.kind = "throw" /\ r.from = "connect" /\ r.via \notin {"Config", "Transport"}}

\* C7: when connect() has failed after the transport was established, the
\* session handle is null and getConnectionStatus reports connected: false
\* (so that the next executeRemote connects again).
C7_TornDownOnFailure ==
  (Idle /\ FailedProvisioning # {})
    => /\ sshConnection = "null"
       /\ getConnectionStatus(env, sshConnection)[1] = "connected:false"

\* -------------------------------------------------------------------------
\* Properties of the model store
\* -------------------------------------------------------------------------
\* C8: when connect() has returned, the current-model marker names a model
\* that the catalog of the inference server lists under that name, whether
\* the pull ran or was skipped.
C8_MarkerNamesPresentModel ==
  (Idle /\ done.op = "connect" /\ done.kind = "return")
    => /\ remote.marker # NoModel
       /\ normalizeModelNameForOllamaCheck(remote.marker) \in remote.catalog

NoDuplicates(s) == \A i, j \in 1..Len(s) : s[i] = s[j] => i = j

\* primary, bare family, family:latest, then the sibling family with the same
\* tag, bare, and :latest
Documented(primary) ==
  LET own == <<primary, <<primary[1]>>, <<primary[1], "latest">>>>
      all == IF Len(primary) >= 2 /\ primary[1] = "qwen3-coder"
             THEN own \o <<<<"qwen2.5-coder", primary[2]>>, <<"qwen2.5-coder">>,
                            <<"qwen2.5-coder", "latest">>>>
             ELSE own
  IN SelectSeq(all, LAMBDA m : m # <<primary[1]>> \/ Len(primary) >= 2)

\* the connect() calls a state shows as failed with every candidate exhausted
PullFailures ==
  {r \in {ret, [x \in DOMAIN ret |-> done[x]]} :
     /\ r.kind = "throw" /\ r.from = "connect" /\ r.via = "PullModel"
     /\ includes(r.err.message, "Model pull failed for all candidates.")}

\* C9: the candidates are attempted in the documented order without
\* duplicates; once a candidate has been reported present it is the last one
\* attempted; and when pullModelForVRAM fails, every candidate was attempted.
C9_CandidateOrder ==
  /\ \A f \in Frames : f.primary # NoModel =>
       /\ NoDuplicates(f.attempted)
       /\ IsPrefix(f.attempted, Documented(f.primary))
       /\ f.present # <<>> =>
            /\ Len(f.present) = 1
            /\ f.attempted[Len(f.attempted)] = f.present[1]
  /\ \A r \in PullFailures :
       r.pull.present = <<>> /\ r.pull.attempted = Documented(r.pull.primary)

\* C10: the error raised when every candidate is exhausted names every
\* candidate that was attempted and carries the last underlying error.
C10_ErrorListsAttempts ==
  \A r \in PullFailures :
    /\ \A i \in 1..Len(r.pull.attempted) : r.pull.attempted[i] \in r.err.names
    /\ includes(r.err.message, "Last error:")


\* -------------------------------------------------------------------------
\* Properties of hardware detection and model selection
\* -------------------------------------------------------------------------
\* the selections made so far: by the connect() calls in progress and by the
\* last finished one, each with the capacity it was made for
Selections ==
  {[vram |-> f.vram, primary |-> f.primary] : f \in {g \in Frames : g.primary # NoModel}}
  \cup (IF done.op = "connect" /\ done.pull.primary # NoModel
        THEN {[vram |-> done.pull.vram, primary |-> done.pull.primary]} ELSE {})

\* C11: model selection is a function of (family, override, capacity,
\* thresholds) -- under one environment, equal capacities give equal
\* selections -- and with MODEL_OVERRIDE set the selected model is the
\* override for every capacity, the undetectable one included, and every
\* threshold setting.
C11_OverrideWins ==
  /\ \A x \in Selections : env.override # NoModel => x.primary = env.override
  /\ \A x, y \in Selections : x.vram = y.vram => x.primary = y.primary

C11_Witness ==
  /\ done.op = "connect" /\ done.kind = "return"
  /\ env.override # NoModel /\ env.low = NaN
  /\ done.pull.smi = "empty" /\ done.pull.vram = NaN
  /\ done.pull.primary = env.override


\* the tiers selectModelForVRAM chooses between for a family
SmallestTier(family) == IF isCoderFamily(family) THEN "7b" ELSE "4b"
LargestTier == "30b"

\* a >= b on JavaScript numbers
Ge(a, b) == a # NaN /\ b # NaN /\ a >= b

BelowLow(x) == Lt(x.vram, env.low) => x.primary = <<env.family, SmallestTier(env.family)>>
AtOrAboveHigh(x) == Ge(x.vram, env.high) => x.primary = <<env.family, LargestTier>>

\* the thresholds for which the tests of selectModelForVRAM, made in the
\* order low, (mid,) high, put every capacity at or above high in the last
\* branch
HighIsHighest ==
  /\ ~Lt(env.high, env.low)
  /\ isCoderFamily(env.family) \/ ~Lt(env.high, env.mid)

\* C12 (as stated): with no override, for every threshold triple and both
\* family kinds, a capacity strictly below the low threshold selects the
\* smallest tier and a capacity at or above the high threshold the largest.
C12_TiersAtExtremes ==
  env.override = NoModel =>
    \A x \in Selections : BelowLow(x) /\ AtOrAboveHigh(x)

\* C12 (amended): with no override and both family kinds, a capacity
\* strictly below the low threshold selects the smallest tier for every
\* threshold triple; a capacity at or above the high threshold selects the
\* largest tier when the high threshold is not below the low one nor, for a
\* non-coder family, below the mid one.
C12_TiersWhenOrdered ==
  env.override = NoModel =>
    \A x \in Selections : BelowLow(x) /\ (HighIsHighest => AtOrAboveHigh(x))

C12_Witness ==
  /\ done.op = "connect" /\ done.kind = "return"
  /\ env.override = NoModel /\ env.family = "qwen3"
  /\ env.low = 10 /\ env.mid = 12 /\ env.high = 16
  /\ done.pull.smi = "number"
  /\ done.pull.vram = 16 /\ done.pull.primary = <<"qwen3", "30b">>


\* what the connect() calls in progress and the last finished one detected
Detections ==
  {PullOf(f) : f \in {g \in Frames : g.smi # "none"}}
  \cup (IF done.op = "connect" /\ done.pull.smi # "none" THEN {done.pull} ELSE {})

\* C13: whenever the accelerator-memory query fails -- the command could not
\* be run, or it printed nothing that parses as a number -- detectVRAM
\* returns 12, so selection gets a defined number and (the high threshold
\* being above 12) does not select the largest tier.
C13_FailedQueryDefaults ==
  \A d \in Detections :
    d.smi \in {"threw", "empty"} =>
      /\ d.vram = 12
      /\ (d.primary # NoModel /\ env.override = NoModel /\ Lt(12, env.high))
           => d.primary # <<env.family, LargestTier>>


\* -------------------------------------------------------------------------
\* Properties of provisioning
\* -------------------------------------------------------------------------
\* the verdicts of ensureGatewayRunning: in the connect() calls in progress
\* and in the last finished one
Verdicts ==
  {f.ensure : f \in {g \in Frames : g.ensure.verdict # "none"}}
  \cup (IF done.op = "connect" /\ done.ensure.verdict # "none"
        THEN {done.ensure} ELSE {})

GatewayHealthy(v) ==
  v.proc /\ v.port /\ ~\E sig \in LogSignatures : includes(<<v.log>>, sig)

\* C14: ensureGatewayRunning reports the gateway healthy (no restart) only
\* when its process exists, its port is listening and the tail of its log
\* has none of the bad-config signatures; in every other case it runs
\* startGateway.
C14_HealthyOnlyWhenHealthy ==
  \A v \in Verdicts :
    /\ v.verdict = "healthy" => GatewayHealthy(v)
    /\ ~GatewayHealthy(v) => v.verdict = "restart"


\* the runs of the fix_config script: in the connect() calls in progress and
\* in the last finished one
Reconciliations ==
  {f.reconcile : f \in {g \in Frames : g.reconcile.ran}}
  \cup (IF done.op = "connect" /\ done.reconcile.ran THEN {done.reconcile} ELSE {})

\* workspace path, sandbox mode, model selection, provider connection details
OwnedPaths ==
  {"agents.defaults.workspace", "agents.defaults.sandbox.mode",
   "agents.defaults.model.primary", "agents.defaults.model.fallbacks",
   "models.providers.ollama.baseUrl", "models.providers.ollama.apiKey",
   "models.providers.ollama.api", "models.providers.ollama.models"}

\* C15: reconciling the configuration document adds or overwrites only the
\* owned fields (workspace path, sandbox mode, model selection, provider
\* connection details): every other field has afterwards the value it had
\* before, whatever the file held.
C15_OnlyOwnedFieldsChange ==
  \A c \in Reconciliations :
    \A p \in CfgPaths \ OwnedPaths : c.after.fields[p] = c.before.fields[p]


\* C16: once the transport is connected, connect() fails only in Bootstrap,
\* PullModel or StartGateway: CheckInstalled, DetectHardware, SelectModel,
\* EnsureModel and EnsureGateway never end it with an error.
C16_OnlyThreeStatesFail ==
  \A r \in FailedProvisioning :
    r.via \notin {"CheckInstalled", "DetectHardware", "SelectModel", "EnsureModel",
                  "EnsureGateway"}


\* -------------------------------------------------------------------------
\* Properties of the watchdog
\* -------------------------------------------------------------------------
\* C17: while a watchdog launched by startGateway is alive, a gateway that
\* has exited is eventually launched again (with its pid written to
\* gateway.pid), also after the controller has disconnected or finished;
\* and disconnect() changes nothing on the remote host.
C17_WatchdogRelaunches ==
  /\ (remote.watchdog /\ ~remote.gwProc) ~> (remote.gwProc \/ ~remote.watchdog)
  /\ [][OpDisconnect => remote' = remote]_vars


\* -------------------------------------------------------------------------
\* Properties of the sync engine
\* -------------------------------------------------------------------------
\* a pass that was not a dry run has returned, and none of its commands was
\* rejected
PassDone == sync.pc = "idle" /\ sync.passes > 0 /\ ~sync.dryRun /\ sync.rejected = 0

LocalOnly == {s \in Slots : sync.before.local[s].there /\ ~sync.before.home[s].there}

RemoteOnly == {s \in Slots : ~sync.before.local[s].there /\ sync.before.home[s].there}

OnBoth == {s \in Slots : sync.before.local[s].there /\ sync.before.home[s].there}

\* the file of a subdir a plain path names
Plain(s) == [root |-> "", name |-> s[2]]

\* the key under which getRemoteFiles lists the remote file of a slot
Listed(s) == relativePath(findLine(s[2]))

Transfers(op, s) ==
  {i \in 1..Len(sync.log) :
     /\ sync.log[i].op = op /\ sync.log[i].dir = s[1]
     /\ sync.log[i].path \in {Plain(s), Listed(s)}}

Conflicted ==
  {<<sync.result.conflicts[i].dir, sync.result.conflicts[i].path.name>> :
     i \in 1..Len(sync.result.conflicts)}

\* C18: a non-dry-run pass uploads exactly the files that were only local
\* (conflicts apart), each once, and afterwards the remote tree has each of
\* them with the size the local file had; the count of uploads it returns is
\* the number of uploads it made.
C18_UploadsLocalOnly ==
  PassDone =>
    /\ \A s \in LocalOnly :
         /\ Cardinality(Transfers("upload", s)) = 1
         /\ sync.rem.home[s].there
         /\ Size(sync.rem.home[s].content) = Size(sync.before.local[s].content)
    /\ \A s \in Slots \ (LocalOnly \cup Conflicted) : Transfers("upload", s) = {}
    /\ sync.result.uploaded
         = Cardinality({i \in 1..Len(sync.log) : sync.log[i].op = "upload"})

\* the backup copies the pass made
NewBackups == {b \in sync.backups : b.at = sync.clock}

\* C19: a non-dry-run pass downloads each file that was only remote to the
\* same folder and relative path locally, and makes no backup copy for it.
C19_DownloadsRemoteOnly ==
  PassDone =>
    \A s \in RemoteOnly :
      /\ sync.local[s].there
      /\ sync.local[s].content = sync.before.home[s].content
      /\ ~\E b \in NewBackups : b.dir = s[1] /\ b.path.name = s[2]

NewestWins == env.policy \in {"", "newest"}

\* C20: under `newest wins`, for a file on both sides with differing size the
\* side with the greater modification time overwrites the other: when the
\* remote is newer, a backup copy with the local bytes has been made and
\* after the pass the local bytes are those the remote had; when the local
\* is newer, the remote bytes are afterwards those the local had.
C20_NewestWins ==
  (PassDone /\ NewestWins) =>
    \A s \in OnBoth :
      LET l == sync.before.local[s]
          r == sync.before.home[s]
      IN Size(l.content) # Size(r.content) =>
           /\ r.mtime > l.mtime =>
                /\ sync.local[s].content = r.content
                /\ \E b \in NewBackups :
                     b.dir = s[1] /\ b.path = Plain(s) /\ b.content = l.content
           /\ l.mtime > r.mtime =>
                /\ sync.rem.home[s].there
                /\ sync.rem.home[s].content = l.content

\* the entries the two listings hold for the file of a slot
LocalEntry(s) == getLocalFiles(sync.before.local, EmptyTree, s[1])[Plain(s)]

RemoteEntry(s) == getRemoteFiles(sync.before.home, s[1])[Listed(s)]

\* the files on both sides that differ in size or, beyond the tolerance, in
\* modification time
Conflicting == {s \in OnBoth : differs(LocalEntry(s), RemoteEntry(s))}

\* C21: under `keep both`, after a non-dry-run pass a conflicting file's
\* local path still holds the local content it had, the content the remote
\* had is held locally under the decorated name, and the remote copy is as
\* it was.
C21_KeepBoth ==
  (PassDone /\ env.policy = "keep_both") =>
    \A s \in Conflicting :
      /\ sync.local[s] = sync.before.local[s]
      /\ \E c \in sync.copies :
           /\ c.dir = s[1] /\ c.path = Plain(s)
           /\ c.content = sync.before.home[s].content
      /\ sync.rem.home[s] = sync.before.home[s]

\* a step of a dry-run pass, its start included
DryRunStep ==
  \/ sync.dryRun /\ sync.pc # "idle"
  \/ sync.pc = "idle" /\ sync'.pc # "idle" /\ sync'.dryRun

\* the local files, the remote files, the backup copies and the checkpoint
Stored(s) == <<s.local, s.nested, s.copies, s.rem, s.backups, s.lastSync>>

\* C22: no step of a dry-run pass changes a local file, a remote file, the
\* backup copies or the sync checkpoint, whatever the trees and the policy.
C22_DryRunChangesNothing == [][DryRunStep => Stored(sync') = Stored(sync)]_vars

\* a dry-run pass has returned having counted an upload and a download
C22_Witness ==
  /\ sync.pc = "idle" /\ sync.passes > 0 /\ sync.dryRun
  /\ sync.result.uploaded > 0 /\ sync.result.downloaded > 0

\* a transfer of the pass threw
ThrowStep == sync.pc = "transfer" /\ sync'.thrown = sync.thrown + 1

\* what the pass has left to do
Remaining(s) == <<s.dir, s.queue>>

\* after the path it is at, the pass goes to the next path of the folder, to
\* the next folder, or to its end
GoesOn ==
  IF sync.queue # <<>> THEN sync'.pc = "file" /\ Remaining(sync') = Remaining(sync)
  ELSE IF sync.dir < Len(Subdirs)
  THEN sync'.pc = "list" /\ sync'.dir = sync.dir + 1
  ELSE sync'.pc = "save"

Recorded ==
  /\ Len(sync'.result.errors) = Len(sync.result.errors) + 1
  /\ SubSeq(sync'.result.errors, 1, Len(sync.result.errors)) = sync.result.errors
  /\ LET e == sync'.result.errors[Len(sync'.result.errors)]
     IN e.dir = Subdirs[sync.dir] /\ e.path = sync.cur

\* C23: an exception thrown while a file is processed is recorded in errors
\* with the folder and the path of that file and the pass goes on with the
\* later paths and folders; every pass that was started returns.
C23_FailureIsRecordedAndSkipped ==
  /\ [][ThrowStep => (Recorded /\ GoesOn)]_vars
  /\ [](sync.thrown = Len(sync.result.errors))
  /\ (sync.pc # "idle" ~> sync.pc = "idle")

\* a pass has returned after two of its transfers threw
C23_Witness ==
  /\ sync.pc = "idle" /\ sync.passes > 0
  /\ sync.thrown = 2 /\ Len(sync.result.errors) = 2

\* a pass that was not a dry run has returned
PassReturned == sync.pc = "idle" /\ sync.passes > 0 /\ ~sync.dryRun

\* the transfers of the pass whose remote command exited with the code
Exited(op, codes) ==
  {i \in 1..Len(sync.log) : sync.log[i].op = op /\ sync.log[i].code \in codes}

InErrors(dir, p) ==
  \E j \in 1..Len(sync.result.errors) :
    sync.result.errors[j].dir = dir /\ sync.result.errors[j].path = p

\* C24: a transfer whose remote command exits non-zero is recorded in errors
\* and not counted in uploaded or downloaded, and a download whose command
\* exits non-zero leaves the local file as it was.
C24_RemoteFailureIsAnError ==
  PassReturned =>
    /\ \A i \in Exited("upload", {1}) \cup Exited("download", {1}) :
         InErrors(sync.log[i].dir, sync.log[i].path)
    /\ sync.result.uploaded = Cardinality(Exited("upload", {0}))
    /\ sync.result.downloaded = Cardinality(Exited("download", {0}))
    /\ \A i \in Exited("download", {1}) :
         localAt(sync, sync.log[i].dir, sync.log[i].path)
           = localAt(sync.before, sync.log[i].dir, sync.log[i].path)

\* the step wrote the checkpoint
CheckpointWritten == sync'.lastSync # sync.lastSync

AllFoldersDone ==
  sync.pc = "save" /\ sync.dir = Len(Subdirs) /\ sync.queue = <<>> /\ sync.todo = <<>>

\* C25: the checkpoint is written only by the last step of a pass that is
\* not a dry run, after the last folder; a pass that is under way has not
\* written it, and a non-dry-run pass that has returned has written it,
\* whether or not errors were recorded.
C25_CheckpointAtEndOnly ==
  /\ [][CheckpointWritten =>
          /\ AllFoldersDone /\ ~sync.dryRun
          /\ sync'.pc = "idle" /\ sync'.lastSync = sync.clock]_vars
  /\ [](sync.pc # "idle" => sync.lastSync < sync.clock)
  /\ [](PassReturned => sync.lastSync = sync.clock)
  /\ []((sync.pc = "idle" /\ sync.dryRun) => sync.lastSync < sync.clock)

\* a non-dry-run pass that recorded an error has returned, the checkpoint
\* written
C25_Witness ==
  /\ PassReturned /\ Len(sync.result.errors) > 0
  /\ sync.lastSync = sync.clock

\* C27: no pass uploads a file of the local artifacts folder, and no pass
\* lists or transfers a file of the state folder.
C27_ArtifactsDownloadOnly ==
  /\ \A i \in 1..Len(sync.log) :
       ~(sync.log[i].op = "upload" /\ sync.log[i].dir = "artifacts")
  /\ \A i \in 1..Len(Subdirs) : Subdirs[i] # "state"


\* C29: after a non-dry-run pass, the files on both sides that differ in
\* size or by more than 1000 ms in modification time are the conflicts of
\* the result; for a file on both sides that does not, the pass made no
\* transfer and no backup.
C29_ConflictExactlyWhenDiffers ==
  PassDone =>
    /\ Conflicted = Conflicting
    /\ \A s \in OnBoth \ Conflicting :
         /\ Transfers("upload", s) = {} /\ Transfers("download", s) = {}
         /\ ~\E b \in NewBackups : b.dir = s[1] /\ b.path.name = s[2]

\* the resolutions the pass recorded, each with the two entries compared
Resolved ==
  {[resolution |-> sync.result.conflicts[i].resolution,
    localFile |-> LocalEntry(<<sync.result.conflicts[i].dir,
                               sync.result.conflicts[i].path.name>>),
    remoteFile |-> RemoteEntry(<<sync.result.conflicts[i].dir,
                                 sync.result.conflicts[i].path.name>>)] :
     i \in 1..Len(sync.result.conflicts)}

\* C30: under `newest wins` a conflict of equal modification times is
\* resolved to one fixed side (download); under `pc wins` every conflict is
\* resolved to upload and under `vast wins` to download, whatever the
\* modification times.
C30_FixedResolution ==
  \A c \in Resolved :
    /\ (NewestWins /\ c.localFile.mtime = c.remoteFile.mtime)
         => c.resolution = "download"
    /\ env.policy = "pc_wins" => c.resolution = "upload"
    /\ env.policy = "vast_wins" => c.resolution = "download"

\* a conflict of equal modification times and differing sizes was resolved
\* under `newest wins`
C30_Witness ==
  /\ NewestWins
  /\ \E c \in Resolved :
       /\ c.localFile.mtime = c.remoteFile.mtime
       /\ c.localFile.size # c.remoteFile.size
       /\ c.resolution = "download"

\* -------------------------------------------------------------------------
\* Properties of provisioning
\* -------------------------------------------------------------------------
\* bootstrap goes on from its probe of the binaries: to the install script,
\* or to the detection of the hardware
LeavesProbe ==
  /\ stack # <<>> /\ Top.pc = "b_which"
  /\ stack' # <<>> /\ Top'.pc \in {"b_script", "v_smi"}

\* C28: bootstrap runs the install script exactly when openclaw or ollama is
\* absent on the host or the force flag is set; with both present and no
\* force it goes straight to the detection of the hardware.
C28_ScriptExactlyWhenNeeded ==
  [][LeavesProbe =>
       (Top'.pc = "b_script" <=> (~remote.openclaw \/ ~remote.ollama \/ Top.force))]_vars

\* -------------------------------------------------------------------------
\* Properties of concurrent callers
\* -------------------------------------------------------------------------
Connecting == {c \in CallerIds : callers.pc[c] = "connecting"}

\* C26: at most one remote command is in flight on the session at any time,
\* and at most one caller at a time is opening a connection.
C26_CallsSerialize ==
  /\ Cardinality(callers.inflight) <= 1
  /\ Cardinality(Connecting) <= 1

\* a pass has returned, none of its commands rejected and none of its
\* transfers thrown
PassClean == sync.pc = "idle" /\ sync.passes > 0 /\ sync.rejected = 0 /\ sync.thrown = 0

\* C31: the counts a pass returns are those of the uploads and downloads it
\* decided, for a dry run as for a real pass, so that both return the same
\* result for the same files and policy.
C31_DryRunReportsDecisions ==
  PassClean =>
    /\ sync.result.uploaded = sync.decided.uploads
    /\ sync.result.downloaded = sync.decided.downloads

\* the same of the passes that are not dry runs
RealPassReportsDecisions == (PassClean /\ ~sync.dryRun) => C31_DryRunReportsDecisions


\* C32: a Backup Copy made by the pass under way is of a path whose conflict
\* the pass resolved as download or as both, the resolutions that overwrite
\* the local file; a conflict resolved as upload makes none.
C32_BackupOnlyBeforeOverwrite ==
  \A b \in NewBackups :
    \E i \in DOMAIN sync.result.conflicts :
      /\ sync.result.conflicts[i].dir = b.dir
      /\ sync.result.conflicts[i].path = b.path
      /\ sync.result.conflicts[i].resolution \in {"download", "both"}

\* no step of a pass removes or replaces a Backup Copy
BackupsKept == [][sync.backups \subseteq sync.backups']_vars


\* a pass is under way that follows a real pass which returned with no error
FollowsCleanPass == sync.pc # "idle" /\ sync.passes > 0 /\ sync.settled

\* C36: the pass that follows a real pass without errors decides no upload,
\* no download and no conflict, runs no transfer and makes no Backup Copy.
C36_SecondPassIsQuiet ==
  FollowsCleanPass =>
    /\ sync.decided = [uploads |-> 0, downloads |-> 0]
    /\ sync.result.conflicts = <<>>
    /\ sync.log = <<>>
    /\ NewBackups = {}


\* the executeRemote calls that are awaiting the connect() of their catch
Reconnecting == {i \in 1..Len(stack) : stack[i].call.phase = "reconnect"}

\* C38: the connect() an executeRemote call awaits in order to reconnect runs
\* its own commands without reconnecting again, so that one call causes a
\* bounded number of connects and always settles.
C38_NoNestedReconnect == Cardinality(Reconnecting) <= 1


\* C40: a watchdog that is alive finds a token in the token file: whatever
\* the configuration, startGateway has the token written there before it
\* launches the watchdog.
C40_TokenPersistedAtLaunch == remote.watchdog => remote.token


\* stopAgent has returned and no operation was invoked since
Stopped == Idle /\ done.op = "stopAgent" /\ done.kind = "return"

\* C37: from the return of stopAgent until another operation is invoked, no
\* gateway process runs on the host, whether or not a watchdog had started it.
C37_StaysStopped == Stopped => ~remote.gwProc


\* C35: a connect() without force that follows a connect() which returned,
\* with nothing done in between, starts no `ollama pull`, whichever
\* candidate the pull of the earlier connect() succeeded with.
C35_SecondConnectPullsNothing ==
  \A f \in Frames : (f.op = "connect" /\ f.after /\ ~f.force) => f.pc # "p_start"


\* the watchdog is alive and has what it needs to launch the gateway
WatchdogAble == remote.watchdog /\ remote.token /\ remote.openclaw

\* C33: startGateway leaves its startup poll for the GatewayStartError only
\* by the timeout of the loop, never earlier while the watchdog is still
\* able to launch the gateway.
C33_GivesUpOnlyAtTimeout ==
  \A f \in Frames : (f.gaveUp # "" /\ WatchdogAble) => f.gaveUp = "timeout"

\* a connect() that went through startGateway and returned had seen the port
\* bound in its last port check
ReturnsOnlyWhenBound ==
  (done.op = "connect" /\ done.kind = "return" /\ done.ensure.verdict = "restart")
    => done.seen = "bound"


\* the call sites of startGateway from its wait for the port up to the
\* launch of the new watchdog
BeforeLaunch == {"g_ss0", "g_ns0", "g_rm", "g_touch", "g_writewd", "g_launch"}

\* C34: once startGateway has stopped the old watchdog and killed the gateway
\* processes, and until it launches the new watchdog, no gateway process of
\* the old watchdog is running, and it comes to the launch only with a port
\* check that saw the port free.
C34_NothingRespawnsAfterKill ==
  \A f \in Frames :
    /\ f.pc \in BeforeLaunch => ~remote.gwOrphan
    /\ f.pc \in {"g_rm", "g_touch", "g_writewd", "g_launch"} => f.portSeen # "bound"

\* a connect() has returned and no operation was invoked since
ConnectReturned == Idle /\ done.op = "connect" /\ done.kind = "return"

\* C39: after a connect() that returned, whatever startGateway runs and
\* gateway exits there were, every live watchdog is the one
\* gateway_watchdog.pid names, and the process bound to the gateway port was
\* launched by it.
C39_OneWatchdogOwnsThePort ==
  ConnectReturned => /\ ~remote.strayWd
                     /\ remote.gwPort => ~remote.gwOrphan

====
